---------------------------- MODULE Spec2Model ----------------------------
(***************************************************************************)
(* Model of the AI orchestration core of Lolo_the_bot.                     *)
(*                                                                         *)
(*  SpecLoop   one /mention/stream request: the router's producer thread   *)
(*             and responder (api/router.py), the orchestrator             *)
(*             generate_response_with_context_stream and its tool loop     *)
(*             _handle_function_calls_stream (api/ai/client.py).           *)
(*  SpecImage  concurrent requests calling image tools: the allow check   *)
(*             and the recording in image_rate_limit.py are two critical   *)
(*             sections around tool.execute (client.py).                   *)
(*  SpecDeep   concurrent requests through the deep-mode gate and the      *)
(*             recording of deep_mode_limit.py.                            *)
(*                                                                         *)
(* Strings are modelled as sequences of tokens; the two markers are        *)
(* tokens, so that startswith / replace / == act on them as in the code.   *)
(***************************************************************************)
EXTENDS Integers, Sequences, FiniteSets, TLC

VARIABLES
    \* ---- one streaming request (SpecLoop) ----
    deep_mode,                \* deep_mode argument of the orchestrator
    permission_level,         \* permission_level argument
    pc,                       \* position of the producer thread
    response,                 \* the current provider response
    iteration,                \* local of _handle_function_calls_stream
    null_response_triggered,  \* local of _handle_function_calls_stream
    total_usage,              \* local dict total_usage (the three call counters)
    pending,                  \* function calls of this turn not yet executed
    function_outputs,         \* local list function_outputs of this turn
    in_flight,                \* the responses.create call awaiting its response
    result_queue,             \* router: queue.Queue between producer and responder
    written,                  \* frames the responder has written to the client
    responder_done,           \* the responder left its while loop
    usage_log,                \* rows written by log_usage
    \* ---- history of the request, read only by the properties ----
    produced,                 \* every chunk the producer has put, in order
    reported,                 \* status text handed to report_status / vision notice
    seen,                     \* item totals over every response received
    followups,                \* follow-up provider calls made by the tool loop
    final_results,            \* final_result events yielded by the tool loop
    notable,                  \* items received so far beyond one plain call a turn
    \* ---- concurrent image tool calls (SpecImage) ----
    img_pc,                   \* per request thread: idle, checking, executing
    img_level,                \* per request thread: its permission_level
    img_reply,                \* the latest function output of an image tool call
    normal_successes,         \* times of the successful generations of normal users
    \* ---- concurrent deep-mode requests (SpecDeep) ----
    d_pc,                     \* per request thread: idle, running
    d_req,                    \* per request thread: nick, permission_level, deep_mode
    d_dropped,                \* per request thread: ledger entries its gate dropped
    d_reply,                  \* what the latest finished request did
    \* ---- the reminders table and the scheduler thread (SpecRemind) ----
    reminders,                \* the rows of the table; the id of a row is its index
    sched_pc,                 \* scheduler thread: sleep, deliver
    batch,                    \* the rows a tick selected and has not attempted yet
    online,                   \* the nicks user_status finds in the channel
    http_failures,            \* callback requests that failed so far
    ticks,                    \* ticks started so far
    due_ids,                  \* ids that were pending, time-type and due at the tick's start
    tick_reports,             \* per id: what user_status reported in this tick
    tick_sends,               \* per id: send_message requests issued in this tick
    ok_sends,                 \* per id: send_message requests that succeeded, ever
    streak,                   \* per id: offline reports in a row, up to now
    streak_base,              \* per id: delivery_attempts when that row of offline reports began
    \* ---- request threads creating reminders (SpecCreate) ----
    c_pc,                     \* per thread: idle, counted
    c_row,                    \* per thread: the row it is about to insert
    c_result,                 \* the result string of the latest create
    creates,                  \* create calls started so far
    \* ---- join checks (SpecJoin) ----
    j_pc,                     \* per thread: idle, selected
    j_args,                   \* per thread: the nick and channel of its call
    j_sel,                    \* per thread: the ids its SELECT returned
    j_out,                    \* per thread: the messages its latest call returned
    j_returned,               \* per id: the calls that returned a message for it
    joins,                    \* join-check calls started so far
    \* ---- the citations of one request (SpecCite) ----
    cite_pc,                  \* loop, final, done
    cite_turns,               \* the provider's responses of the request, in order
    cite_capped,              \* whether the loop ends at its cap, before the last response
    cite_idx,                 \* the response the loop is looking at
    all_citations,            \* the loop's list of cleaned urls
    seen_citation_urls,       \* the loop's set of cleaned urls
    cite_sources,             \* the urls of the Sources list of the success message
    \* ---- the knowledge base (SpecKB) ----
    kb_collection,            \* the chunks stored, each with its id and metadata
    kb_content,               \* per url: the text a fetch of it returns
    kb_first,                 \* per url: the chunks its first successful learn stored
    kb_prev,                  \* the call before the latest
    kb_last,                  \* the latest call and what it returned
    kb_ops,                   \* calls so far
    \* ---- one query_chat_history call (SpecHistory) ----
    h_pc,                     \* call, done
    h_request,                \* the permission level and channel of the request
    h_args,                   \* the arguments the provider gave the call
    h_db,                     \* whether the message database exists
    h_result,                 \* what the call returned
    h_read,                   \* the channels whose messages the call read
    \* ---- two calls of _build_context_prompt (SpecPrompt) ----
    bp_config,                \* the system prompt, the deep_mode flag, the stored rules
    bp_requests,              \* per call: nick, channel, message, history, current time
    bp_prompts,               \* per call: the parts of the prompt and where its prefix ends
    \* ---- a mention request at the HTTP boundary (SpecMention) ----
    m_pc,                     \* received, generating, done
    m_request,                \* the MentionRequest and the endpoint it was posted to
    m_invoked,                \* whether the AI client was asked to generate
    m_provider_calls,         \* provider calls made for the request
    m_usage_rows,             \* usage rows logged for the request
    m_reply,                  \* the terminal status sent back
    \* ---- one request on the blocking path (SpecBlocking) ----
    b_pc,                     \* received, iterating, returned, done
    b_has_deep_mode,          \* whether the request object has a deep_mode attribute
    b_events,                 \* what the generator has still to yield
    b_terminal,               \* the terminal event of the generator
    b_final_message,          \* local final_message of generate_response_with_context
    b_response,               \* the MentionResponse returned
    \* ---- execute_shell and irc_command calls of one request (SpecGate) ----
    g_level,                  \* permission_level of the request
    g_handled,                \* the gated calls handled: arguments, level seen, result
    shell_runs,               \* calls of subprocess.run
    irc_posts,                \* POSTs to the IRC client's /irc/execute
    \* ---- manage_user_rules calls, one at a time (SpecRules) ----
    ur_file,                  \* data/user_rules.json: per lower-case nick entries and next_id
    ur_high,                  \* per user the highest id add has assigned so far
    ur_last,                  \* the last call: request nick and level, target read, outcome
    ur_calls,                 \* manage_user_rules calls so far
    \* ---- manage_user_rules in two threads (SpecRace) ----
    rr_file,                  \* data/user_rules.json: whether it is valid JSON, and its data
    rr_pc,                    \* per thread: called, save, open, dump, done
    rr_args,                  \* per thread: the arguments of its call
    rr_local,                 \* per thread: user_data of execute, all_rules of _save_user_data
    rr_partial_seen,          \* a load has read a file that was not valid JSON
    \* ---- bug_report calls, one at a time (SpecBugs) ----
    bug_rows,                 \* the bugs table, in insertion order
    bug_next_id,              \* the next AUTOINCREMENT id
    bug_last,                 \* the last call: request nick and level, action, outcome
    bug_calls,                \* bug_report calls so far
    \* ---- the token usage of one request (SpecUsage) ----
    u_pc,                     \* first_call, next_call, post_loop, logged, done
    u_db,                     \* data/bot.db: ok, missing, locked
    u_total,                  \* the token counts of local total_usage
    u_reported,               \* response.usage of every response received, in order
    u_rows,                   \* rows of usage_tracking written for the request
    u_events,                 \* terminal events yielded, each with the rows written before it
    \* ---- constructions of ReminderTool (SpecSingleton) ----
    sg_pc,                    \* per thread: idle, enter, check, set, start
    sg_lock,                  \* ReminderTool._scheduler_lock: the thread holding it, or 0
    sg_started,               \* ReminderTool._scheduler_started
    sg_threads,               \* scheduler threads started so far
    sg_constructed,           \* constructions begun so far
    \* ---- a stream whose consumer may go away (SpecAbandon) ----
    ab_pc,                    \* orchestrator thread: start, iterating, finished
    ab_events,                \* what the generator has still to yield
    ab_queue,                 \* result_queue
    ab_produced,              \* every item put on the queue, in order
    ab_written,               \* the chunks the responder has yielded to the consumer
    ab_consumer,              \* reading, gone, closed
    ab_usage,                 \* usage rows written for the request
    \* ---- the parameters of the provider calls of one request (SpecParams) ----
    pr_pc,                    \* start, loop, done
    pr_deep,                  \* deep_mode of the request
    pr_config,                \* self.config: reasoning_effort, max_output_tokens, timeout
    pr_calls,                 \* the parameters of the calls made so far, in order
    \* ---- cancelling a reminder (SpecCancel) ----
    cn_pc,                    \* idle, update
    cn_args,                  \* reminder_id, nick, permission_level of the call
    cn_result,                \* what the call returned
    cancels,                  \* calls so far
    \* ---- the deep_mode field of a mention request (SpecField) ----
    df_pc,                    \* received, handling, done
    df_endpoint,              \* /mention or /mention/stream
    df_body,                  \* the JSON object posted
    df_request,               \* the MentionRequest made of it, if any yet
    df_run,                   \* how the orchestrator ran, if it was called
    df_reply,                 \* success or error
    \* ---- the background migration to the vector index (SpecMigrate) ----
    mg_pc,                    \* sleep, batch
    mg_messages,              \* the content of the messages, by id
    mg_index,                 \* the ids of the documents added to the collection
    mg_rows,                  \* the rows of the run not yet handled
    mg_failures,              \* batches that failed so far
    \* ---- history of the /mention/stream request (SpecLoop) ----
    raised_calls,             \* the provider calls of the request that raised
    \* ---- shared rate-limit state ----
    now,                      \* time.time(), seconds
    restarts,                 \* times the process was stopped and started again
    image_timestamps,         \* image_rate_limit._image_timestamps
    deep_usage                \* deep_mode_limit._deep_usage

loopVars == <<deep_mode, permission_level, pc, response, iteration,
              null_response_triggered, total_usage, pending, function_outputs,
              in_flight, result_queue, written, responder_done, usage_log,
              produced, reported, seen, followups, final_results, notable>>

imgVars == <<img_pc, img_level, img_reply, normal_successes>>

deepVars == <<d_pc, d_req, d_dropped, d_reply>>

sharedVars == <<now, image_timestamps, deep_usage>>

schedVars == <<sched_pc, batch, online, http_failures, ticks, due_ids, tick_reports,
               tick_sends, ok_sends, streak, streak_base, restarts>>

createVars == <<c_pc, c_row, c_result, creates>>

joinVars == <<j_pc, j_args, j_sel, j_out, j_returned, joins>>

remVars == <<reminders, schedVars, createVars, joinVars>>

citeVars == <<cite_pc, cite_turns, cite_capped, cite_idx, all_citations,
              seen_citation_urls, cite_sources>>

kbVars == <<kb_collection, kb_content, kb_first, kb_prev, kb_last, kb_ops>>

histVars == <<h_pc, h_request, h_args, h_db, h_result, h_read>>

promptVars == <<bp_config, bp_requests, bp_prompts>>

mentionVars == <<m_pc, m_request, m_invoked, m_provider_calls, m_usage_rows, m_reply>>

blockVars == <<b_pc, b_has_deep_mode, b_events, b_terminal, b_final_message, b_response>>

gateVars == <<g_level, g_handled, shell_runs, irc_posts>>

rulesVars == <<ur_file, ur_high, ur_last, ur_calls>>

raceVars == <<rr_file, rr_pc, rr_args, rr_local, rr_partial_seen>>

bugVars == <<bug_rows, bug_next_id, bug_last, bug_calls>>

usageVars == <<u_pc, u_db, u_total, u_reported, u_rows, u_events>>

singletonVars == <<sg_pc, sg_lock, sg_started, sg_threads, sg_constructed>>

abandonVars == <<ab_pc, ab_events, ab_queue, ab_produced, ab_written, ab_consumer, ab_usage>>

paramVars == <<pr_pc, pr_deep, pr_config, pr_calls>>

cancelVars == <<cn_pc, cn_args, cn_result, cancels>>

fieldVars == <<df_pc, df_endpoint, df_body, df_request, df_run, df_reply>>

migrateVars == <<mg_pc, mg_messages, mg_index, mg_rows, mg_failures>>

raiseVars == <<raised_calls>>

\* the state of the other components
restVars == <<remVars, citeVars, kbVars, histVars, promptVars, mentionVars,
             blockVars,
             gateVars,
             rulesVars,
             raceVars,
             bugVars,
             usageVars,
             singletonVars,
             abandonVars,
             paramVars,
             cancelVars,
             fieldVars,
             migrateVars>>

\* the state outside the three request models above
extVars == <<restVars, raiseVars>>

\* what the mention endpoints never touch
notMention == <<loopVars, imgVars, deepVars, sharedVars, remVars, citeVars, kbVars, histVars,
                promptVars, blockVars, gateVars, rulesVars, raceVars, bugVars, usageVars, singletonVars, abandonVars, paramVars, cancelVars, fieldVars, migrateVars, raiseVars>>

\* what the building of a prompt never touches
notPrompt == <<loopVars, imgVars, deepVars, sharedVars, remVars, citeVars, kbVars, histVars, mentionVars,
                blockVars, gateVars, rulesVars, raceVars, bugVars, usageVars, singletonVars, abandonVars, paramVars, cancelVars, fieldVars, migrateVars, raiseVars>>

\* what a chat history query never touches
notHistory == <<loopVars, imgVars, deepVars, sharedVars, remVars, citeVars, kbVars, promptVars, mentionVars,
                blockVars, gateVars, rulesVars, raceVars, bugVars, usageVars, singletonVars, abandonVars, paramVars, cancelVars, fieldVars, migrateVars, raiseVars>>

\* what the reminder tool and its scheduler never touch, the clock and the
\* two ledgers apart
notRemind == <<loopVars, imgVars, deepVars, citeVars, kbVars, histVars, promptVars, mentionVars,
                blockVars, gateVars, rulesVars, raceVars, bugVars, usageVars, singletonVars, abandonVars, paramVars, cancelVars, fieldVars, migrateVars, raiseVars>>

\* what the handling of citations never touches
notCite == <<loopVars, imgVars, deepVars, sharedVars, remVars, kbVars, histVars, promptVars, mentionVars,
                blockVars, gateVars, rulesVars, raceVars, bugVars, usageVars, singletonVars, abandonVars, paramVars, cancelVars, fieldVars, migrateVars, raiseVars>>

\* what the knowledge base manager never touches
notKB == <<loopVars, imgVars, deepVars, sharedVars, remVars, citeVars, histVars, promptVars, mentionVars,
                blockVars, gateVars, rulesVars, raceVars, bugVars, usageVars, singletonVars, abandonVars, paramVars, cancelVars, fieldVars, migrateVars, raiseVars>>

\* what the blocking path never touches
notBlocking == <<loopVars, imgVars, deepVars, sharedVars, remVars, citeVars, kbVars, histVars,
      promptVars, mentionVars, gateVars, rulesVars, raceVars, bugVars, usageVars, singletonVars, abandonVars, paramVars, cancelVars, fieldVars, migrateVars, raiseVars>>

\* what the gated tools never touch
notGate == <<loopVars, imgVars, deepVars, sharedVars, remVars, citeVars, kbVars, histVars,
      promptVars, mentionVars, blockVars, rulesVars, raceVars, bugVars, usageVars, singletonVars, abandonVars, paramVars, cancelVars, fieldVars, migrateVars, raiseVars>>

\* what manage_user_rules never touches
notRules == <<loopVars, imgVars, deepVars, sharedVars, remVars, citeVars, kbVars, histVars,
      promptVars, mentionVars, blockVars, gateVars, raceVars, bugVars, usageVars, singletonVars, abandonVars, paramVars, cancelVars, fieldVars, migrateVars, raiseVars>>

\* what the concurrent manage_user_rules calls never touch
notRace == <<loopVars, imgVars, deepVars, sharedVars, remVars, citeVars, kbVars, histVars,
      promptVars, mentionVars, blockVars, gateVars, rulesVars, bugVars, usageVars, singletonVars, abandonVars, paramVars, cancelVars, fieldVars, migrateVars, raiseVars>>

\* what bug_report never touches
notBugs == <<loopVars, imgVars, deepVars, sharedVars, remVars, citeVars, kbVars, histVars,
      promptVars, mentionVars, blockVars, gateVars, rulesVars, raceVars, usageVars, singletonVars, abandonVars, paramVars, cancelVars, fieldVars, migrateVars, raiseVars>>

\* what the token accounting never touches
notUsage == <<loopVars, imgVars, deepVars, sharedVars, remVars, citeVars, kbVars, histVars,
      promptVars, mentionVars, blockVars, gateVars, rulesVars, raceVars, bugVars, singletonVars, abandonVars, paramVars, cancelVars, fieldVars, migrateVars, raiseVars>>

\* what the construction of a ReminderTool never touches
notSingleton == <<loopVars, imgVars, deepVars, sharedVars, remVars, citeVars, kbVars, histVars,
      promptVars, mentionVars, blockVars, gateVars, rulesVars, raceVars, bugVars, usageVars, abandonVars, paramVars, cancelVars, fieldVars, migrateVars, raiseVars>>

\* what the abandoned stream never touches
notAbandon == <<loopVars, imgVars, deepVars, sharedVars, remVars, citeVars, kbVars, histVars,
      promptVars, mentionVars, blockVars, gateVars, rulesVars, raceVars, bugVars, usageVars, singletonVars, paramVars, cancelVars, fieldVars, migrateVars, raiseVars>>

\* what the choice of the call parameters never touches
notParams == <<loopVars, imgVars, deepVars, sharedVars, remVars, citeVars, kbVars, histVars,
      promptVars, mentionVars, blockVars, gateVars, rulesVars, raceVars, bugVars, usageVars, singletonVars, abandonVars, cancelVars, fieldVars, migrateVars, raiseVars>>

\* what a cancel never touches, the table apart
notCancel == <<loopVars, imgVars, deepVars, citeVars, kbVars, histVars,
      promptVars, mentionVars, blockVars, gateVars, rulesVars, raceVars, bugVars, usageVars, singletonVars, abandonVars, paramVars, fieldVars, migrateVars, raiseVars>>

\* what the handling of the deep_mode field never touches
notField == <<loopVars, imgVars, deepVars, sharedVars, remVars, citeVars, kbVars, histVars,
      promptVars, mentionVars, blockVars, gateVars, rulesVars, raceVars, bugVars, usageVars, singletonVars, abandonVars, paramVars, cancelVars, migrateVars, raiseVars>>

\* what the migration never touches
notMigrate == <<loopVars, imgVars, deepVars, sharedVars, remVars, citeVars, kbVars, histVars,
      promptVars, mentionVars, blockVars, gateVars, rulesVars, raceVars, bugVars, usageVars, singletonVars, abandonVars, paramVars, cancelVars, fieldVars, raiseVars>>

vars == <<loopVars, imgVars, deepVars, sharedVars, extVars>>

-----------------------------------------------------------------------------
(* Program constants *)

MAX_TOOL_ITERATIONS_NORMAL == 18
MAX_TOOL_ITERATIONS_DEEP == 30
MAX_IMAGES_PER_HOUR == 3
WINDOW_SECONDS == 3600
MAX_DEEP_PER_DAY == 3
DAY_SECONDS == 86400

STATUS_UPDATE_MARKER == "<<STATUS_UPDATE>>"
NULL_RESPONSE_MARKER == "<<NULL_RESPONSE>>"
STATUS_ACK == <<"Status reported to user.">>
VISION_NOTICE == <<"Analyzing image content...">>
GENERIC_ERROR == <<"Sorry, I encountered an error generating a response.">>
EMPTY_ERROR == <<"I couldn't generate a proper response. Please try again.">>
RATE_LIMIT_MSG == <<"Rate limit reached! Mathisen put a limit on image generation. Try again later.">>

IMAGE_TOOLS == {"flux_create_image", "flux_edit_image", "gpt_image", "gemini_image"}

(* Bounds of the model *)

\* A request's responses carry, beyond one plain tool call (fetch_url) a turn,
\* at most MaxNotable items: calls of the other tools, unknown or malformed
\* calls, further calls of a turn, native tool items.
MaxNotable == 2
MaxCallsPerTurn == 2  \* function calls in one response

-----------------------------------------------------------------------------
(* Strings as token sequences *)

startswith(s, marker) == Len(s) >= 1 /\ s[1] = marker

\* str.replace(marker, ""): every occurrence of the marker is removed
replace(s, marker) == SelectSeq(s, LAMBDA t : t # marker)

IsWhitespace(t) == t \in {" ", "\n"}

\* what the model may pass to report_status as status_message
StatusMessages == {<<"Searching">>, <<"a", STATUS_UPDATE_MARKER, "b">>}

\* output_text of a final response
RawTexts == {<<>>, <<" ">>, <<"answer">>}


-----------------------------------------------------------------------------
(* Rate limiters: image_rate_limit.py and deep_mode_limit.py.  Each operator *)
(* is one critical section (with _lock) and returns the new shared state.    *)

is_image_tool(tool_name) == tool_name \in IMAGE_TOOLS

\* the check without the owner/admin bypass
check_image_rate_limit_everyone(level, timestamps, t) ==
    LET cutoff == t - WINDOW_SECONDS
        kept == SelectSeq(timestamps, LAMBDA ts : ts > cutoff)
    IN  IF Len(kept) >= MAX_IMAGES_PER_HOUR
        THEN [allowed |-> FALSE, message |-> RATE_LIMIT_MSG, timestamps |-> kept]
        ELSE [allowed |-> TRUE, message |-> <<>>, timestamps |-> kept]

check_image_rate_limit(level, timestamps, t) ==
    IF level \in {"owner", "admin"}
    THEN [allowed |-> TRUE, message |-> <<>>, timestamps |-> timestamps]
    ELSE LET cutoff == t - WINDOW_SECONDS
             kept == SelectSeq(timestamps, LAMBDA ts : ts > cutoff)
         IN  IF Len(kept) >= MAX_IMAGES_PER_HOUR
             THEN [allowed |-> FALSE, message |-> RATE_LIMIT_MSG, timestamps |-> kept]
             ELSE [allowed |-> TRUE, message |-> <<>>, timestamps |-> kept]

record_image_generation(timestamps, t) == Append(timestamps, t)

Nicks == {"alice", "bob", "carol"}

SeqMin(s) == CHOOSE x \in {s[i] : i \in DOMAIN s} : \A i \in DOMAIN s : x <= s[i]

\* the message of a denial: the time until the oldest usage expires, as
\* hours and minutes
LimitMessage(time_until_reset) ==
    <<"Deep mode limit reached (3/day). Resets in",
      ToString(time_until_reset \div 3600), "h",
      ToString((time_until_reset % 3600) \div 60), "m.">>

\* the check that denies only above the quota
check_deep_mode_limit_above(nick, level, usage, t) ==
    IF level \in {"owner", "admin"}
    THEN [allowed |-> TRUE, message |-> <<>>, usage |-> usage]
    ELSE LET day_ago == t - DAY_SECONDS
             kept == SelectSeq(usage[nick], LAMBDA ts : ts > day_ago)
             pruned == [usage EXCEPT ![nick] = kept]
         IN  IF Len(kept) > MAX_DEEP_PER_DAY
             THEN [allowed |-> FALSE,
                   message |-> LimitMessage(SeqMin(kept) + DAY_SECONDS - t),
                   usage |-> pruned]
             ELSE [allowed |-> TRUE, message |-> <<>>, usage |-> pruned]

\* usage maps every nick to its list; a nick without a key is the empty list
check_deep_mode_limit(nick, level, usage, t) ==
    IF level \in {"owner", "admin"}
    THEN [allowed |-> TRUE, message |-> <<>>, usage |-> usage]
    ELSE LET day_ago == t - DAY_SECONDS
             kept == SelectSeq(usage[nick], LAMBDA ts : ts > day_ago)
             pruned == [usage EXCEPT ![nick] = kept]
         IN  IF Len(kept) >= MAX_DEEP_PER_DAY
             THEN [allowed |-> FALSE,
                   message |-> LimitMessage(SeqMin(kept) + DAY_SECONDS - t),
                   usage |-> pruned]
             ELSE [allowed |-> TRUE, message |-> <<>>, usage |-> pruned]

\* the recording without the owner/admin bypass
record_deep_mode_usage_everyone(nick, level, usage, t) ==
    [usage EXCEPT ![nick] = Append(@, t)]

record_deep_mode_usage(nick, level, usage, t) ==
    IF level \in {"owner", "admin"}
    THEN usage
    ELSE [usage EXCEPT ![nick] = Append(@, t)]

-----------------------------------------------------------------------------
(* Provider responses *)

ToolNames == {"null_response", "report_status", "analyze_image", "fetch_url", "gpt_image"}

\* the function calls a response may carry: a registered tool, a name that is
\* not registered, or arguments that are not valid JSON
CallChoices ==
    {[name |-> n, arguments |-> "json"] : n \in ToolNames \cup {"no_such_tool"}}
        \cup {[name |-> "fetch_url", arguments |-> "malformed"]}

CallLists ==
    UNION {[1..n -> CallChoices] : n \in 0..MaxCallsPerTurn}

Item(type, name, arguments, call_id) ==
    [type |-> type, name |-> name, arguments |-> arguments, call_id |-> call_id]

FunctionItems(calls) ==
    [i \in 1..Len(calls) |->
        Item("function_call", calls[i].name, calls[i].arguments, i)]

\* output of a response: native tool items, then function calls, then the message
Output(web, code, calls, msg) ==
    (IF web THEN <<Item("web_search_call", "", "", 0)>> ELSE <<>>)
        \o (IF code THEN <<Item("code_interpreter_call", "", "", 0)>> ELSE <<>>)
        \o FunctionItems(calls)
        \o (IF msg THEN <<Item("message", "", "", 0)>> ELSE <<>>)

PlainCall == [name |-> "fetch_url", arguments |-> "json"]

B2N(b) == IF b THEN 1 ELSE 0

NotableCost(web, code, calls) ==
    B2N(web) + B2N(code)
        + Cardinality({i \in DOMAIN calls : calls[i] # PlainCall})
        + (IF Len(calls) > 1 THEN Len(calls) - 1 ELSE 0)

\* the responses the provider may return now, within the bounds of the model
ProviderShapes ==
    IF notable >= MaxNotable
    THEN {[web |-> FALSE, code |-> FALSE, msg |-> m, calls |-> cl] :
            m \in {FALSE}, cl \in {<<PlainCall>>}}
         \cup {[web |-> FALSE, code |-> FALSE, msg |-> m, calls |-> <<>>] : m \in BOOLEAN}
    ELSE {f \in [web : BOOLEAN, code : BOOLEAN, msg : BOOLEAN, calls : CallLists] :
            /\ notable + NotableCost(f.web, f.code, f.calls) <= MaxNotable
            /\ f.msg => f.calls = <<>>}

CountType(output_items, type) ==
    Cardinality({i \in DOMAIN output_items : output_items[i].type = type})

IsFunctionCall(item) == item.type = "function_call"

count_tools_in_output(output_items) ==
    [function |-> Len(SelectSeq(output_items, IsFunctionCall)),
     web_search |-> Len(SelectSeq(output_items, LAMBDA it : it.type = "web_search_call")),
     code_interpreter |->
        Len(SelectSeq(output_items, LAMBDA it : it.type = "code_interpreter_call"))]

AddCounts(usage, counts) ==
    [tool_calls |-> usage.tool_calls + counts.function,
     web_search_calls |-> usage.web_search_calls + counts.web_search,
     code_interpreter_calls |-> usage.code_interpreter_calls + counts.code_interpreter]

ZeroUsage == [tool_calls |-> 0, web_search_calls |-> 0, code_interpreter_calls |-> 0]

\* history: the items of one more response
Saw(output_items) ==
    [fc |-> seen.fc + CountType(output_items, "function_call"),
     web |-> seen.web + CountType(output_items, "web_search_call"),
     code |-> seen.code + CountType(output_items, "code_interpreter_call")]

-----------------------------------------------------------------------------
(* Tools, as the tool loop sees them *)

RAISED == <<"raise">>

\* any execute() may raise
ToolResults(name) ==
    {RAISED} \cup
    CASE name = "null_response" -> {<<NULL_RESPONSE_MARKER>>}
      [] name = "report_status" -> {<<STATUS_UPDATE_MARKER>> \o m : m \in StatusMessages}
      [] name = "analyze_image" -> {<<"json", "success", "image_data">>, <<"json", "error">>}
      [] name = "gpt_image"     -> {<<"https://image">>, <<"Error", "generation failed">>}
      [] OTHER                  -> {<<"content">>}

-----------------------------------------------------------------------------
(* Frames and the router's queue *)

Chunk(status, message) == [kind |-> "chunk", status |-> status, message |-> message]
DoneSentinel == [kind |-> "done", status |-> "", message |-> <<>>]

\* the orchestrator yields an event and run_ai_generation puts it on the queue
Put(q, frames) == q \o frames

FunctionOutput(call_id, output) == [call_id |-> call_id, output |-> output]

StreamNick == "alice"

MaxToolIterations(deep) ==
    IF deep THEN MAX_TOOL_ITERATIONS_DEEP ELSE MAX_TOOL_ITERATIONS_NORMAL

\* the while test with the cap included in the loop
LoopGuardInclusive(iter, deep) == iter <= MaxToolIterations(deep)

LoopGuard(iter, deep) == iter < MaxToolIterations(deep)

\* _extract_output: output_text, else the fallback text
extract_output(raw) == IF raw # <<>> THEN raw ELSE <<"No response generated">>

\* _clean_for_irc: whitespace is collapsed and stripped; never returns ""
clean_for_irc(text) ==
    LET stripped == SelectSeq(text, LAMBDA t : ~IsWhitespace(t))
    IN  IF stripped = <<>> THEN <<"I couldn't generate a response.">> ELSE stripped


-----------------------------------------------------------------------------
(* One function call of a turn: client.py, the body of "for func_call in      *)
(* function_calls".  res is what tool.execute does, vision_ok whether the     *)
(* nested vision call returns.  The effect: the function output, the status   *)
(* events yielded, whether the null marker was seen, the image window.        *)

Effect(output, events, null, timestamps, asked) ==
    [output |-> output, events |-> events, null |-> null,
     timestamps |-> timestamps, asked |-> asked]

\* the body without the except clause around tool.execute: the exception is
\* the outcome of the call
HandleCallUncaught(call, res, vision_ok, level, timestamps, t) ==
    IF call.arguments = "malformed" \/ call.name \notin ToolNames \/ res = RAISED
    THEN Effect(RAISED, <<>>, FALSE, timestamps, <<>>)
    ELSE Effect(res, <<>>, FALSE, timestamps, <<>>)

HandleCall(call, res, vision_ok, level, timestamps, t) ==
    IF call.arguments = "malformed"
    THEN Effect(<<"Error: Invalid JSON in tool arguments">>, <<>>, FALSE, timestamps, <<>>)
    ELSE IF call.name \notin ToolNames
    THEN Effect(<<"Error: Unknown tool">>, <<>>, FALSE, timestamps, <<>>)
    ELSE
    LET gate == IF is_image_tool(call.name)
                THEN check_image_rate_limit(level, timestamps, t)
                ELSE [allowed |-> TRUE, message |-> <<>>, timestamps |-> timestamps]
    IN
    IF ~gate.allowed
    THEN Effect(gate.message, <<>>, FALSE, gate.timestamps, <<>>)
    ELSE IF res = RAISED
    THEN Effect(<<"Error executing tool">>, <<>>, FALSE, gate.timestamps, <<>>)
    ELSE
    LET recorded == IF is_image_tool(call.name) /\ ~startswith(res, "Error")
                    THEN record_image_generation(gate.timestamps, t)
                    ELSE gate.timestamps
        is_status == call.name = "report_status" /\ startswith(res, STATUS_UPDATE_MARKER)
        status_msg == replace(res, STATUS_UPDATE_MARKER)
        result == IF is_status THEN STATUS_ACK ELSE res
        null == result = <<NULL_RESPONSE_MARKER>>
        vision == /\ call.name = "analyze_image"
                  /\ result = <<"json", "success", "image_data">>
    IN
    IF is_status
    THEN Effect(result, <<status_msg>>, null, recorded, <<Tail(res)>>)
    ELSE IF vision
    THEN Effect(IF vision_ok THEN <<"Image Analysis Result:", "analysis">>
                ELSE <<"Error analyzing image:", "timeout">>,
                <<VISION_NOTICE>>, null, recorded, <<VISION_NOTICE>>)
    ELSE Effect(result, <<>>, null, recorded, <<>>)

ProcessingChunks(events) == [i \in 1..Len(events) |-> Chunk("processing", events[i])]

\* the null branch without its return: the success event follows the null event
TerminalFramesFallThrough(null_triggered, cleaned_text) ==
    (IF null_triggered THEN <<Chunk("null", <<>>)>> ELSE <<>>)
        \o <<Chunk("success", cleaned_text)>>

\* what generate_response_with_context_stream yields after the tool loop
TerminalFrames(null_triggered, cleaned_text) ==
    IF null_triggered THEN <<Chunk("null", <<>>)>>
    ELSE IF cleaned_text = <<>> THEN <<Chunk("error", EMPTY_ERROR)>>
    ELSE <<Chunk("success", cleaned_text)>>

UsageRow(usage) == usage

\* an except branch that passes the exception on to the user
ExceptionFramesInternal(e) == <<Chunk("error", <<"Internal error: ">> \o e)>>

\* the except branch of generate_response_with_context_stream
ExceptionFrames(e) == <<Chunk("error", GENERIC_ERROR)>>

\* whether the call reaches the nested vision call of analyze_image
VisionCalled(call, res) ==
    /\ call.arguments # "malformed"
    /\ call.name = "analyze_image"
    /\ res = <<"json", "success", "image_data">>

-----------------------------------------------------------------------------
(* SpecLoop: actions *)

\* responses.create without the chaining to the previous response
RequestUnchained(input, previous_response_id) ==
    [input |-> input, previous_response_id |-> 0]

\* responses.create: its input and its previous_response_id (0: none)
Request(input, previous_response_id) ==
    [input |-> input, previous_response_id |-> previous_response_id]
NoRequest == Request(<<>>, 0)
NoResponse == [id |-> 0, output |-> <<>>]
PROMPT == <<"prompt">>

InitShared ==
    /\ now = 0
    /\ image_timestamps = <<>>
    /\ deep_usage = [n \in Nicks |-> <<>>]

\* deep_mode is the argument of generate_response_with_context_stream and of
\* the tool loop; callers pass either value
InitLoop ==
    /\ deep_mode \in BOOLEAN
    /\ permission_level = "normal"
    /\ pc = "start"
    /\ response = NoResponse
    /\ iteration = 0
    /\ null_response_triggered = FALSE
    /\ total_usage = ZeroUsage
    /\ pending = <<>>
    /\ function_outputs = <<>>
    /\ in_flight = NoRequest
    /\ result_queue = <<>>
    /\ written = <<>>
    /\ responder_done = FALSE
    /\ usage_log = <<>>
    /\ produced = <<>>
    /\ reported = <<>>
    /\ seen = [fc |-> 0, web |-> 0, code |-> 0]
    /\ followups = 0
    /\ final_results = 0
    /\ notable = 0
    /\ raised_calls = {}

\* put frames on the queue (and remember them)
Enqueue(frames) ==
    /\ result_queue' = Put(result_queue, frames)
    /\ produced' = produced \o frames

ShapeOutput(f) == Output(f.web, f.code, f.calls, f.msg)

\* history of one more response
Received(f) ==
    /\ seen' = Saw(ShapeOutput(f))
    /\ notable' = notable + NotableCost(f.web, f.code, f.calls)

\* router.run_ai_generation: get the client and create the generator
GetClient ==
    /\ pc = "start"
    /\ \/ /\ pc' = "generate"
          /\ UNCHANGED <<result_queue, produced>>
       \/ /\ pc' = "finished"
          /\ Enqueue(<<Chunk("error", <<"Internal error">>), DoneSentinel>>)
    /\ UNCHANGED <<extVars, imgVars, deepVars, deep_mode, permission_level, response, iteration,
                   null_response_triggered, total_usage, pending, function_outputs,
                   in_flight, written, responder_done, usage_log, reported,
                   seen, followups, final_results, notable,
                   sharedVars>>

\* generate_response_with_context_stream: the deep-mode gate, then the first
\* provider call is sent
StartGeneration ==
    /\ pc = "generate"
    /\ LET gate == IF deep_mode
                   THEN check_deep_mode_limit(StreamNick, permission_level, deep_usage, now)
                   ELSE [allowed |-> TRUE, message |-> <<>>, usage |-> deep_usage]
       IN  /\ deep_usage' = gate.usage
           /\ IF ~gate.allowed
              THEN /\ Enqueue(<<Chunk("error", gate.message)>>)
                   /\ pc' = "gen_done"
                   /\ UNCHANGED in_flight
              ELSE /\ in_flight' = Request(PROMPT, 0)
                   /\ pc' = "first_call"
                   /\ UNCHANGED <<result_queue, produced>>
    /\ UNCHANGED <<extVars, imgVars, deepVars, deep_mode, permission_level, response, iteration,
                   null_response_triggered, total_usage, pending, function_outputs,
                   written, responder_done, usage_log, reported, seen, followups,
                   final_results, notable, now, image_timestamps>>

\* the tool loop starting from an empty usage: the initial response not counted
InitialUsageEmpty(out) == ZeroUsage

\* the usage the tool loop starts from: the initial response is counted
InitialUsage(out) == AddCounts(ZeroUsage, count_tools_in_output(out))

\* the first provider call returns or raises; the tool loop's initial accounting
FirstReply ==
    /\ pc = "first_call"
    /\ in_flight' = NoRequest
    /\ \/ /\ Enqueue(ExceptionFrames(RAISED))
          /\ raised_calls' = raised_calls \cup {"initial"}
          /\ pc' = "gen_done"
          /\ UNCHANGED <<response, total_usage, seen, notable>>
       \/ \E f \in ProviderShapes :
          /\ response' = [id |-> 1, output |-> ShapeOutput(f)]
          /\ total_usage' = InitialUsage(ShapeOutput(f))
          /\ Received(f)
          /\ pc' = "loop_top"
          /\ UNCHANGED <<result_queue, produced, raised_calls>>
    /\ UNCHANGED <<restVars, imgVars, deepVars, deep_mode, permission_level, iteration, null_response_triggered,
                   pending, function_outputs, written, responder_done, usage_log,
                   reported, followups, final_results, sharedVars>>

\* _handle_function_calls_stream: the while test and the head of the loop body
LoopTop ==
    /\ pc = "loop_top"
    /\ IF LoopGuard(iteration, deep_mode)
       THEN /\ iteration' = iteration + 1
            /\ LET function_calls == SelectSeq(response.output, IsFunctionCall)
               IN  IF response.output = <<>> \/ function_calls = <<>>
                   THEN /\ final_results' = final_results + 1
                        /\ pc' = "post_loop"
                        /\ UNCHANGED <<pending, function_outputs>>
                   ELSE /\ pending' = function_calls
                        /\ function_outputs' = <<>>
                        /\ pc' = "exec"
                        /\ UNCHANGED final_results
       ELSE /\ final_results' = final_results + 1
            /\ pc' = "post_loop"
            /\ UNCHANGED <<iteration, pending, function_outputs>>
    /\ UNCHANGED <<extVars, imgVars, deepVars, deep_mode, permission_level, response, null_response_triggered,
                   total_usage, in_flight, result_queue, written, responder_done,
                   usage_log, produced, reported, seen, followups, notable,
                   sharedVars>>

\* the next function call of the turn
ExecCall ==
    /\ pc = "exec"
    /\ pending # <<>>
    /\ \E res \in ToolResults(Head(pending).name), vision_ok \in BOOLEAN :
         LET call == Head(pending)
             eff == HandleCall(call, res, vision_ok, permission_level,
                               image_timestamps, now)
         IN  /\ function_outputs' =
                    Append(function_outputs, FunctionOutput(call.call_id, eff.output))
             /\ Enqueue(ProcessingChunks(eff.events))
             /\ reported' = reported \o eff.asked
             /\ null_response_triggered' = (null_response_triggered \/ eff.null)
             /\ image_timestamps' = eff.timestamps
             /\ raised_calls' = IF VisionCalled(call, res) /\ ~vision_ok
                                 THEN raised_calls \cup {"vision"} ELSE raised_calls
    /\ pending' = Tail(pending)
    /\ pc' = IF Tail(pending) = <<>> THEN "followup" ELSE "exec"
    /\ UNCHANGED <<restVars, imgVars, deepVars, deep_mode, permission_level, response, iteration, total_usage,
                   in_flight, written, responder_done, usage_log, seen, followups,
                   final_results, notable, now, deep_usage>>

\* the end of a turn: the follow-up provider call is sent
FollowUp ==
    /\ pc = "followup"
    /\ IF function_outputs = <<>>
       THEN /\ final_results' = final_results + 1
            /\ pc' = "post_loop"
            /\ UNCHANGED <<in_flight, followups>>
       ELSE /\ in_flight' = Request(function_outputs, response.id)
            /\ followups' = followups + 1
            /\ pc' = "next_call"
            /\ UNCHANGED final_results
    /\ UNCHANGED <<extVars, imgVars, deepVars, deep_mode, permission_level, response, iteration,
                   null_response_triggered, total_usage, pending, function_outputs,
                   result_queue, written, responder_done, usage_log, produced,
                   reported, seen, notable, sharedVars>>

\* the follow-up call returns or raises; its accounting.  function_outputs is
\* rebound at the next turn and not read before, so it is dropped here.
FollowUpReply ==
    /\ pc = "next_call"
    /\ in_flight' = NoRequest
    /\ function_outputs' = <<>>
    /\ \/ /\ Enqueue(ExceptionFrames(RAISED))
          /\ raised_calls' = raised_calls \cup {"followup"}
          /\ pc' = "gen_done"
          /\ UNCHANGED <<response, total_usage, seen, notable>>
       \/ \E f \in ProviderShapes :
          /\ response' = [id |-> response.id + 1, output |-> ShapeOutput(f)]
          /\ total_usage' =
                AddCounts(total_usage, count_tools_in_output(ShapeOutput(f)))
          /\ Received(f)
          /\ pc' = "loop_top"
          /\ UNCHANGED <<result_queue, produced, raised_calls>>
    /\ UNCHANGED <<restVars, imgVars, deepVars, deep_mode, permission_level, iteration, null_response_triggered,
                   pending, written, responder_done, usage_log, reported, followups,
                   final_results, sharedVars>>

\* generate_response_with_context_stream after the tool loop
PostLoop ==
    /\ pc = "post_loop"
    /\ usage_log' = Append(usage_log, UsageRow(total_usage))
    /\ \E raw \in RawTexts :
         LET cleaned_text == clean_for_irc(extract_output(raw))
             frames == TerminalFrames(null_response_triggered, cleaned_text)
         IN  /\ Enqueue(frames)
             /\ deep_usage' =
                    IF deep_mode /\ frames[Len(frames)].status = "success"
                    THEN record_deep_mode_usage(StreamNick, permission_level,
                                                deep_usage, now)
                    ELSE deep_usage
    /\ pc' = "gen_done"
    /\ UNCHANGED <<extVars, imgVars, deepVars, deep_mode, permission_level, response, iteration,
                   null_response_triggered, total_usage, pending, function_outputs,
                   in_flight, written, responder_done, reported, seen, followups,
                   final_results, notable, now, image_timestamps>>

\* router.run_ai_generation after the generator is exhausted
PutDone ==
    /\ pc = "gen_done"
    /\ Enqueue(<<DoneSentinel>>)
    /\ pc' = "finished"
    /\ UNCHANGED <<extVars, imgVars, deepVars, deep_mode, permission_level, response, iteration,
                   null_response_triggered, total_usage, pending, function_outputs,
                   in_flight, written, responder_done, usage_log, reported,
                   seen, followups, final_results, notable,
                   sharedVars>>

QueueGet(q) == Head(q)

\* router.generate_chunks: one successful result_queue.get
ResponderGet ==
    /\ ~responder_done
    /\ result_queue # <<>>
    /\ LET msg == QueueGet(result_queue)
       IN  IF msg.kind = "done"
           THEN responder_done' = TRUE /\ UNCHANGED written
           ELSE written' = Append(written, msg) /\ UNCHANGED responder_done
    /\ result_queue' = Tail(result_queue)
    /\ UNCHANGED <<extVars, imgVars, deepVars, deep_mode, permission_level, pc, response, iteration,
                   null_response_triggered, total_usage, pending, function_outputs,
                   in_flight, usage_log, produced, reported, seen, followups,
                   final_results, notable, sharedVars>>

NextLoop ==
    \/ GetClient
    \/ StartGeneration
    \/ FirstReply
    \/ LoopTop
    \/ ExecCall
    \/ FollowUp
    \/ FollowUpReply
    \/ PostLoop
    \/ PutDone
    \/ ResponderGet

-----------------------------------------------------------------------------
(* SpecImage: request threads that execute image tool calls.  A thread does,  *)
(* per call, what the tool loop does: check_image_rate_limit (one critical    *)
(* section), tool.execute outside any lock, then record_image_generation      *)
(* (a second critical section) when the result does not start with "Error".   *)

Threads == 1..2
MaxImageTicks == 3     \* the clock advances this often, half a window at a time
MaxImageStamps == 4    \* owner/admin calls start only below this many timestamps

Levels == {"normal", "admin", "owner"}
ImageTick == WINDOW_SECONDS \div 2

InWindow(timestamps, t, window) == SelectSeq(timestamps, LAMBDA ts : ts > t - window)

NoImageReply == [level |-> "", output |-> <<>>]

InitImage ==
    /\ img_pc = [p \in Threads |-> "idle"]
    /\ img_level = [p \in Threads |-> "normal"]
    /\ img_reply = NoImageReply
    /\ normal_successes = <<>>

\* a request of some permission level reaches an image tool call
ImageCall(p) ==
    /\ img_pc[p] = "idle"
    /\ \E level \in Levels :
        /\ level \in {"owner", "admin"} => Len(image_timestamps) < MaxImageStamps
        /\ img_level' = [img_level EXCEPT ![p] = level]
    /\ img_pc' = [img_pc EXCEPT ![p] = "checking"]
    /\ UNCHANGED <<img_reply, normal_successes, sharedVars, loopVars, deepVars, extVars>>

\* client.py: "if is_image_tool(func_name)": the allow check
ImageCheck(p) ==
    /\ img_pc[p] = "checking"
    /\ LET gate == check_image_rate_limit(img_level[p], image_timestamps, now)
       IN  /\ image_timestamps' = gate.timestamps
           /\ IF gate.allowed
              THEN /\ img_pc' = [img_pc EXCEPT ![p] = "executing"]
                   /\ UNCHANGED img_reply
              ELSE /\ img_pc' = [img_pc EXCEPT ![p] = "idle"]
                   /\ img_reply' = [level |-> img_level[p], output |-> gate.message]
    /\ UNCHANGED <<img_level, normal_successes, now, deep_usage, loopVars, deepVars, extVars>>

\* client.py: tool.execute returns (or raises) and the generation is recorded
ImageExecute(p) ==
    /\ img_pc[p] = "executing"
    /\ \E res \in ToolResults("gpt_image") :
        LET success == res # RAISED /\ ~startswith(res, "Error")
        IN  /\ image_timestamps' =
                    IF success THEN record_image_generation(image_timestamps, now)
                    ELSE image_timestamps
            /\ normal_successes' =
                    IF success /\ img_level[p] = "normal"
                    THEN Append(normal_successes, now) ELSE normal_successes
            /\ img_reply' =
                    [level |-> img_level[p],
                     output |-> IF res = RAISED THEN <<"Error executing tool">> ELSE res]
    /\ img_pc' = [img_pc EXCEPT ![p] = "idle"]
    /\ UNCHANGED <<img_level, now, deep_usage, loopVars, deepVars, extVars>>

\* time passes; generations that left every window ending from now on are forgotten
ImageClock ==
    /\ now < MaxImageTicks * ImageTick
    /\ now' = now + ImageTick
    /\ normal_successes' = InWindow(normal_successes, now', WINDOW_SECONDS)
    /\ UNCHANGED <<img_pc, img_level, img_reply, image_timestamps, deep_usage,
                   loopVars, deepVars, extVars>>

NextImage ==
    \/ \E p \in Threads : ImageCall(p)
    \/ \E p \in Threads : ImageCheck(p)
    \/ \E p \in Threads : ImageExecute(p)
    \/ ImageClock

-----------------------------------------------------------------------------
(* SpecDeep: request threads through generate_response_with_context_stream.   *)
(* DeepStart is the gate at the head of the generator, DeepFinish everything  *)
(* from the first provider call to the terminal event.                        *)

DeepThreads == 1..3
MaxDeepTicks == 2      \* the clock advances this often, half a day at a time

DeepTick == DAY_SECONDS \div 2

\* who sends requests: nick and the permission level the IRC client gives it
Requests ==
    {[nick |-> "alice", level |-> "normal", deep |-> TRUE],
     [nick |-> "alice", level |-> "normal", deep |-> FALSE],
     [nick |-> "bob", level |-> "admin", deep |-> TRUE],
     [nick |-> "carol", level |-> "owner", deep |-> TRUE]}

NoReply == [req |-> [nick |-> "", level |-> "", deep |-> FALSE],
            events |-> <<>>, provider_calls |-> 0, usage_rows |-> 0]

InitDeep ==
    /\ d_pc = [p \in DeepThreads |-> "idle"]
    /\ d_req = [p \in DeepThreads |-> NoReply.req]
    /\ d_dropped = [p \in DeepThreads |-> 0]
    /\ d_reply = NoReply

\* client.py 314-324: the deep-mode gate of a new request
DeepStart(p) ==
    /\ d_pc[p] = "idle"
    /\ \E r \in Requests :
        LET gate == IF r.deep
                    THEN check_deep_mode_limit(r.nick, r.level, deep_usage, now)
                    ELSE [allowed |-> TRUE, message |-> <<>>, usage |-> deep_usage]
        IN  /\ deep_usage' = gate.usage
            /\ IF ~gate.allowed
               THEN /\ d_reply' = [req |-> r,
                                   events |-> <<Chunk("error", gate.message)>>,
                                   provider_calls |-> 0, usage_rows |-> 0]
                    /\ UNCHANGED <<d_pc, d_req, d_dropped>>
               ELSE /\ d_pc' = [d_pc EXCEPT ![p] = "running"]
                    /\ d_req' = [d_req EXCEPT ![p] = r]
                    /\ d_dropped' = [d_dropped EXCEPT
                            ![p] = Len(deep_usage[r.nick]) - Len(gate.usage[r.nick])]
                    /\ UNCHANGED d_reply
    /\ UNCHANGED <<now, image_timestamps, loopVars, imgVars, extVars>>

\* client.py 326-452: the provider calls and the tool loop, then the usage
\* row, the terminal event and the recording of the deep-mode usage
DeepFinish(p) ==
    /\ d_pc[p] = "running"
    /\ \E raised \in BOOLEAN, null_triggered \in BOOLEAN :
        LET r == d_req[p]
            frames == IF raised THEN <<Chunk("error", GENERIC_ERROR)>>
                      ELSE TerminalFrames(null_triggered,
                                          clean_for_irc(extract_output(<<"answer">>)))
            success == frames[Len(frames)].status = "success"
        IN  /\ d_reply' = [req |-> r, events |-> frames, provider_calls |-> 1,
                           usage_rows |-> IF raised THEN 0 ELSE 1]
            /\ deep_usage' =
                    IF r.deep /\ success
                    THEN record_deep_mode_usage(r.nick, r.level, deep_usage, now)
                    ELSE deep_usage
    /\ d_pc' = [d_pc EXCEPT ![p] = "idle"]
    /\ d_req' = [d_req EXCEPT ![p] = NoReply.req]
    /\ d_dropped' = [d_dropped EXCEPT ![p] = 0]
    /\ UNCHANGED <<now, image_timestamps, loopVars, imgVars, extVars>>

DeepClock ==
    /\ now < MaxDeepTicks * DeepTick
    /\ now' = now + DeepTick
    /\ UNCHANGED <<d_pc, d_req, d_dropped, d_reply, image_timestamps, deep_usage,
                   loopVars, imgVars, extVars>>

NextDeep ==
    \/ \E p \in DeepThreads : DeepStart(p)
    \/ \E p \in DeepThreads : DeepFinish(p)
    \/ DeepClock

-----------------------------------------------------------------------------
(* Reminders: reminder.py.  The table is a sequence of rows, the id of a row  *)
(* its index.  Times are seconds; deliver_at is compared as the ISO strings   *)
(* of the table compare.                                                      *)

DUE_LIMIT == 20            \* LIMIT of the scheduler's query
MAX_ATTEMPTS == 10         \* attempts at which an offline reminder fails
TICK_SECONDS == 15         \* the scheduler sleeps this long between ticks
HOUR_SECONDS == 3600
WEEK_SECONDS == 604800

MaxTicks == 11             \* ticks of the scheduler in a run
MaxHttpFailures == 1       \* callback requests that fail in a run
MaxBacklog == 21           \* rows of the largest table the runs start from

\* LOWER() of the table and str.lower(), on the nicks and channels of the model
Lower(name) ==
    CASE name = "Alice" -> "alice"
      [] name = "#X" -> "#x"
      [] name = "#A" -> "#a"
      [] name = "WHOIS" -> "whois"
      [] name = "Kick" -> "kick"
      [] OTHER -> name

JOIN_EXPIRY_DAYS == 30        \* days after which _create_reminder lets a join reminder expire
RECURRING_EXPIRY_DAYS == 365  \* and a reminder of type recurring

\* None in a time column
NoTime == -1

\* the expires_at _create_reminder computes from the reminder_type it is given
ExpiresAt(reminder_type, t) ==
    IF reminder_type = "join" THEN t + JOIN_EXPIRY_DAYS * DAY_SECONDS
    ELSE IF reminder_type = "recurring" THEN t + RECURRING_EXPIRY_DAYS * DAY_SECONDS
    ELSE NoTime

\* a row created at time 0
Row(creator, target, type, deliver_at, recurrence) ==
    [creator_nick |-> creator, target_nick |-> target, channel |-> "#x",
     message |-> "tea", reminder_type |-> type, deliver_at |-> deliver_at,
     recurrence |-> recurrence, status |-> "pending", delivery_attempts |-> 0,
     created_at |-> 0, expires_at |-> ExpiresAt(type, 0)]

\* the rows of the scheduler's query: pending, time-type, due, by deliver_at
\* (rows of one deliver_at in the order of their ids), at most DUE_LIMIT
DueIds(rows, t) ==
    {i \in DOMAIN rows : /\ rows[i].status = "pending"
                         /\ rows[i].reminder_type = "time"
                         /\ rows[i].deliver_at <= t}

Before(rows, i, j) ==
    \/ rows[i].deliver_at < rows[j].deliver_at
    \/ rows[i].deliver_at = rows[j].deliver_at /\ i < j

DueBatch(rows, t) ==
    LET due == DueIds(rows, t)
        rank(i) == Cardinality({j \in due : Before(rows, j, i)}) + 1
        n == IF Cardinality(due) < DUE_LIMIT THEN Cardinality(due) ELSE DUE_LIMIT
    IN  [k \in 1..n |->
            LET id == CHOOSE i \in due : rank(i) = k IN [id |-> id, row |-> rows[id]]]

\* _mark_delivered
mark_delivered(rows, id) == [rows EXCEPT ![id].status = "delivered"]

\* _increment_attempts
increment_attempts(rows, id) ==
    [rows EXCEPT ![id].delivery_attempts = @ + 1]

\* _reschedule_recurring advancing from the time of the delivery
reschedule_recurring_from_now(rows, id, recurrence, t) ==
    IF recurrence \in {"daily", "weekly", "hourly"}
    THEN [rows EXCEPT ![id].deliver_at =
                            t + (CASE recurrence = "daily" -> DAY_SECONDS
                                   [] recurrence = "weekly" -> WEEK_SECONDS
                                   [] recurrence = "hourly" -> HOUR_SECONDS),
                      ![id].delivery_attempts = 0]
    ELSE mark_delivered(rows, id)

\* _reschedule_recurring: the next occurrence is counted from the row's
\* deliver_at; a recurrence that is none of the three marks the row delivered
reschedule_recurring(rows, id, recurrence, t) ==
    IF recurrence \in {"daily", "weekly", "hourly"}
    THEN [rows EXCEPT ![id].deliver_at =
                            @ + (CASE recurrence = "daily" -> DAY_SECONDS
                                   [] recurrence = "weekly" -> WEEK_SECONDS
                                   [] recurrence = "hourly" -> HOUR_SECONDS),
                      ![id].delivery_attempts = 0]
    ELSE mark_delivered(rows, id)

\* the offline branch of _attempt_delivery failing one attempt later
offline_attempt_late(rows, id, reminder) ==
    LET attempts == reminder.delivery_attempts + 1
    IN  IF attempts > MAX_ATTEMPTS
        THEN [rows EXCEPT ![id].status = "failed", ![id].delivery_attempts = attempts]
        ELSE [rows EXCEPT ![id].delivery_attempts = attempts]

\* the offline branch of _attempt_delivery; reminder is the row as selected
offline_attempt(rows, id, reminder) ==
    LET attempts == reminder.delivery_attempts + 1
    IN  IF attempts >= MAX_ATTEMPTS
        THEN [rows EXCEPT ![id].status = "failed", ![id].delivery_attempts = attempts]
        ELSE [rows EXCEPT ![id].delivery_attempts = attempts]

\* the line sent to the channel
ReminderLine(addressee, creator, target, message) ==
    IF creator = target
    THEN <<addressee, ": Reminder: ", message>>
    ELSE <<addressee, ": Reminder from ", creator, ": ", message>>

\* the tables a run starts from (the table outlives the process): up to two
\* rows of any kind, or a backlog of one-shot reminders of two creators, all
\* due, for one target
RowChoices ==
    {Row(c, "alice", "time", d, r) :
        c \in {"alice", "bob"}, d \in {0, TICK_SECONDS}, r \in {"", "hourly"}}
    \cup {Row("alice", "alice", "time", 0, r) : r \in {"daily", "weekly", "monthly"}}
    \cup {Row("bob", "alice", "join", 0, "")}

BacklogStore(n) ==
    [i \in 1..n |-> Row(IF i % 2 = 0 THEN "bob" ELSE "alice", "alice", "time", 0, "")]

Stores ==
    {<<r>> : r \in RowChoices}
    \cup {<<r, Row("bob", "alice", "time", 0, "")>> : r \in RowChoices}
    \cup {BacklogStore(MaxBacklog)}

PerId(rows, v) == [i \in DOMAIN rows |-> v]

IdleScheduler ==
    /\ sched_pc = "sleep"
    /\ batch = <<>>
    /\ online = {}
    /\ http_failures = 0
    /\ ticks = 0
    /\ due_ids = {}
    /\ tick_reports = PerId(reminders, "none")
    /\ tick_sends = PerId(reminders, 0)
    /\ ok_sends = PerId(reminders, 0)
    /\ streak = PerId(reminders, 0)
    /\ streak_base = PerId(reminders, 0)
    /\ restarts = 0

IdleCreate ==
    /\ c_pc = [p \in Threads |-> "idle"]
    /\ c_row = [p \in Threads |-> Row("", "", "", 0, "")]
    /\ c_result = <<>>
    /\ creates = 0

IdleJoin ==
    /\ j_pc = [p \in Threads |-> "idle"]
    /\ j_args = [p \in Threads |-> [nick |-> "", channel |-> ""]]
    /\ j_sel = [p \in Threads |-> <<>>]
    /\ j_out = [p \in Threads |-> <<>>]
    /\ j_returned = <<>>
    /\ joins = 0

\* no reminder exists, the scheduler never runs, no request creates one, nobody
\* joins
IdleRemind == reminders = <<>> /\ IdleScheduler /\ IdleCreate /\ IdleJoin

InitRemind == reminders \in Stores /\ IdleScheduler /\ IdleCreate /\ IdleJoin

\* _process_due_reminders: the query of a tick.  Who is in the channel is
\* settled here for the tick.
ProcessDue ==
    /\ sched_pc = "sleep"
    /\ ticks < MaxTicks
    /\ ticks' = ticks + 1
    /\ \E present \in SUBSET {"alice"} : online' = present
    /\ batch' = DueBatch(reminders, now)
    /\ due_ids' = DueIds(reminders, now)
    /\ tick_reports' = PerId(reminders, "none")
    /\ tick_sends' = PerId(reminders, 0)
    /\ sched_pc' = "deliver"
    /\ UNCHANGED <<reminders, http_failures, ok_sends, streak, streak_base, restarts,
                   createVars, joinVars, notRemind, sharedVars>>

\* _attempt_delivery for the next row of the tick
AttemptDelivery ==
    /\ sched_pc = "deliver"
    /\ batch # <<>>
    /\ LET rid == Head(batch).id
           reminder == Head(batch).row
       IN  \E status_ok \in BOOLEAN, send_ok \in BOOLEAN :
            LET seen_online == status_ok /\ reminder.target_nick \in online
                failed == B2N(~status_ok) + B2N(seen_online /\ ~send_ok)
            IN  /\ http_failures + failed <= MaxHttpFailures
                /\ ~seen_online => send_ok
                /\ http_failures' = http_failures + failed
                /\ tick_reports' = [tick_reports EXCEPT
                                        ![rid] = IF seen_online THEN "online" ELSE "offline"]
                /\ tick_sends' = [tick_sends EXCEPT ![rid] = @ + B2N(seen_online)]
                /\ ok_sends' = [ok_sends EXCEPT ![rid] = @ + B2N(seen_online /\ send_ok)]
                /\ streak' = [streak EXCEPT ![rid] = IF seen_online THEN 0 ELSE @ + 1]
                /\ streak_base' = [streak_base EXCEPT
                        ![rid] = IF ~seen_online /\ streak[rid] = 0
                                 THEN reminder.delivery_attempts ELSE @]
                /\ reminders' =
                    IF seen_online
                    THEN IF send_ok
                         THEN IF reminder.recurrence # ""
                              THEN reschedule_recurring(reminders, rid,
                                                        reminder.recurrence, now)
                              ELSE mark_delivered(reminders, rid)
                         ELSE increment_attempts(reminders, rid)
                    ELSE offline_attempt(reminders, rid, reminder)
    /\ batch' = Tail(batch)
    /\ UNCHANGED <<sched_pc, online, ticks, due_ids, restarts,
                   createVars, joinVars, notRemind, sharedVars>>

\* the tick is over; the scheduler sleeps
SchedulerSleep ==
    /\ sched_pc = "deliver"
    /\ batch = <<>>
    /\ sched_pc' = "sleep"
    /\ now' = now + TICK_SECONDS
    /\ UNCHANGED <<reminders, batch, online, http_failures, ticks, due_ids,
                   tick_reports, tick_sends, ok_sends, streak, streak_base, restarts,
                   createVars, joinVars, notRemind, image_timestamps, deep_usage>>

NextRemind ==
    \/ ProcessDue
    \/ AttemptDelivery
    \/ SchedulerSleep

-----------------------------------------------------------------------------
(* Creating reminders: _create_reminder, called by the reminder tool in the   *)
(* thread of a request.  The count and the INSERT are two statements of one   *)
(* connection; the first is not part of a transaction.                        *)

MAX_PENDING == 20          \* pending reminders a creator may hold

MaxCreates == 3            \* create calls in a run

\* _parse_deliver_at: "+<n><unit>" is relative to now, an ISO time is itself,
\* anything else is None
parse_deliver_at(deliver_at, t) ==
    IF deliver_at = <<>> THEN NoTime
    ELSE IF deliver_at[1] = "+"
    THEN CASE Len(deliver_at) # 3 -> NoTime
           [] deliver_at[3] = "s" -> t + deliver_at[2]
           [] deliver_at[3] = "m" -> t + 60 * deliver_at[2]
           [] deliver_at[3] = "h" -> t + HOUR_SECONDS * deliver_at[2]
           [] deliver_at[3] = "d" -> t + DAY_SECONDS * deliver_at[2]
           [] deliver_at[3] = "w" -> t + WEEK_SECONDS * deliver_at[2]
           [] OTHER -> NoTime
    ELSE IF deliver_at[1] = "iso" THEN deliver_at[2]
    ELSE NoTime

\* what the tool passes to _create_reminder
CreateArgs ==
    [creator : {"alice", "Alice", "bob"},
     message : {"tea", "x"},
     channel : {"#x", ""},
     reminder_type : {"time", "join"},
     deliver_at : {<<>>, <<"+", 30, "s">>, <<"soon">>, <<"iso", 0>>},
     recurrence : {"", "daily"}]

\* _create_reminder up to the count: the error it returns, or <<>>
CreateError(a, t) ==
    LET parsed == parse_deliver_at(a.deliver_at, t)
    IN  IF a.message = "x" THEN <<"Error: Reminder message is too short.">>
        ELSE IF a.channel = "" THEN <<"Error: Channel is required for reminders.">>
        ELSE IF a.reminder_type \in {"time", "recurring"} /\ a.deliver_at = <<>>
        THEN <<"Error: deliver_at is required for time-based reminders.">>
        ELSE IF a.reminder_type \in {"time", "recurring"} /\ parsed = NoTime
        THEN <<"Error: Could not parse deliver_at">>
        ELSE IF a.reminder_type \in {"time", "recurring"} /\ parsed < t
        THEN <<"Error: deliver_at is in the past.">>
        ELSE IF a.reminder_type = "recurring" /\ a.recurrence = ""
        THEN <<"Error: recurrence is required for recurring reminders.">>
        ELSE <<>>

NewRow(a, t) ==
    [creator_nick |-> a.creator, target_nick |-> a.creator, channel |-> a.channel,
     message |-> a.message, reminder_type |-> a.reminder_type,
     deliver_at |-> IF a.reminder_type \in {"time", "recurring"}
                    THEN parse_deliver_at(a.deliver_at, t) ELSE NoTime,
     recurrence |-> a.recurrence, status |-> "pending", delivery_attempts |-> 0,
     created_at |-> t, expires_at |-> ExpiresAt(a.reminder_type, t)]

\* SELECT COUNT(*) ... WHERE LOWER(creator_nick) = LOWER(?) AND status = 'pending'
PendingCount(rows, creator) ==
    Cardinality({i \in DOMAIN rows : /\ Lower(rows[i].creator_nick) = Lower(creator)
                                     /\ rows[i].status = "pending"})

TOO_MANY == <<"Error: You have too many pending reminders (max 20). Cancel some first.">>

\* tables in which a creator is at or near the limit
FullStores == {BacklogStore(n) : n \in {2 * (MAX_PENDING - 1), 2 * MAX_PENDING}}

InitCreate == reminders \in FullStores /\ IdleScheduler /\ IdleCreate /\ IdleJoin

\* _create_reminder: the checks of the arguments and the count
CreateCount(p) ==
    /\ c_pc[p] = "idle"
    /\ creates < MaxCreates
    /\ creates' = creates + 1
    /\ \E a \in CreateArgs :
        LET error == CreateError(a, now)
        IN  IF error # <<>>
            THEN c_result' = error /\ UNCHANGED <<c_pc, c_row>>
            ELSE IF PendingCount(reminders, a.creator) >= MAX_PENDING
            THEN c_result' = TOO_MANY /\ UNCHANGED <<c_pc, c_row>>
            ELSE /\ c_pc' = [c_pc EXCEPT ![p] = "counted"]
                 /\ c_row' = [c_row EXCEPT ![p] = NewRow(a, now)]
                 /\ UNCHANGED c_result
    /\ UNCHANGED <<reminders, schedVars, joinVars, notRemind, sharedVars>>

\* _create_reminder: the INSERT and the commit
CreateInsert(p) ==
    /\ c_pc[p] = "counted"
    /\ reminders' = Append(reminders, c_row[p])
    /\ c_result' = <<"Reminder set", ToString(Len(reminders) + 1)>>
    /\ c_pc' = [c_pc EXCEPT ![p] = "idle"]
    /\ UNCHANGED <<c_row, creates, schedVars, joinVars, notRemind, sharedVars>>

NextCreate ==
    \/ \E p \in Threads : CreateCount(p)
    \/ \E p \in Threads : CreateInsert(p)

-----------------------------------------------------------------------------
(* Join checks: check_join_reminders, called when a user joins a channel.     *)
(* The SELECT runs outside any transaction; the UPDATEs of the rows it        *)
(* returned become visible together at the commit.                            *)

MaxJoins == 3              \* join-check calls in a run

JoinRow(creator, target, channel, type, status) ==
    [Row(creator, target, type, IF type = "time" THEN 0 ELSE NoTime, "")
        EXCEPT !.channel = channel, !.status = status]

JoinRowChoices ==
    {JoinRow(c, t, ch, "join", "pending") :
        c \in {"alice", "bob"}, t \in {"alice", "Alice", "bob"}, ch \in {"#x", "#X", "#y"}}
    \cup {JoinRow("bob", "alice", "#x", "join", "delivered"),
          JoinRow("bob", "alice", "#x", "join", "cancelled"),
          JoinRow("bob", "alice", "#x", "time", "pending")}

\* tables of two rows, the first a pending join reminder for alice in #x
JoinStores ==
    {<<JoinRow(c, "alice", "#x", "join", "pending"), r>> :
        c \in {"alice", "bob"}, r \in JoinRowChoices}

JoinArgs == [nick : {"alice", "Alice", "bob"}, channel : {"#x", "#X"}]

\* the ids the SELECT returns, by created_at, which is the order of the ids
JoinMatches(rows, nick, channel) ==
    {i \in DOMAIN rows : /\ rows[i].status = "pending"
                         /\ rows[i].reminder_type = "join"
                         /\ Lower(rows[i].target_nick) = Lower(nick)
                         /\ Lower(rows[i].channel) = Lower(channel)}

RECURSIVE Ascending(_)
Ascending(ids) ==
    IF ids = {} THEN <<>>
    ELSE LET first == CHOOSE i \in ids : \A j \in ids : i <= j
         IN  <<first>> \o Ascending(ids \ {first})

\* the message built for one selected row
JoinLine(nick, rem) ==
    IF Lower(rem.creator_nick) = Lower(rem.target_nick)
    THEN <<nick, ": Reminder: ", rem.message>>
    ELSE <<nick, ": Reminder from ", rem.creator_nick, ": ", rem.message>>

InitJoin ==
    /\ reminders \in JoinStores
    /\ IdleScheduler /\ IdleCreate
    /\ j_pc = [p \in Threads |-> "idle"]
    /\ j_args = [p \in Threads |-> [nick |-> "", channel |-> ""]]
    /\ j_sel = [p \in Threads |-> <<>>]
    /\ j_out = [p \in Threads |-> <<>>]
    /\ j_returned = [i \in 1..2 |-> 0]
    /\ joins = 0

\* check_join_reminders: the SELECT and fetchall; the rows are copies
JoinSelect(p) ==
    /\ j_pc[p] = "idle"
    /\ joins < MaxJoins
    /\ joins' = joins + 1
    /\ \E a \in JoinArgs :
        /\ j_args' = [j_args EXCEPT ![p] = a]
        /\ j_sel' = [j_sel EXCEPT ![p] =
                        [k \in DOMAIN Ascending(JoinMatches(reminders, a.nick, a.channel)) |->
                            LET id == Ascending(JoinMatches(reminders, a.nick, a.channel))[k]
                            IN  [id |-> id, row |-> reminders[id]]]]
    /\ j_pc' = [j_pc EXCEPT ![p] = "selected"]
    /\ UNCHANGED <<reminders, j_out, j_returned, schedVars, createVars,
                   notRemind, sharedVars>>

\* check_join_reminders: the loop over the selected rows, the commit, the return
JoinDeliver(p) ==
    /\ j_pc[p] = "selected"
    /\ LET ids == {j_sel[p][k].id : k \in DOMAIN j_sel[p]}
       IN  /\ reminders' = [i \in DOMAIN reminders |->
                               IF i \in ids
                               THEN [reminders[i] EXCEPT !.status = "delivered"]
                               ELSE reminders[i]]
           /\ j_returned' = [i \in DOMAIN j_returned |->
                               IF i \in ids THEN j_returned[i] + 1 ELSE j_returned[i]]
    /\ j_out' = [j_out EXCEPT ![p] =
                    [k \in DOMAIN j_sel[p] |-> JoinLine(j_args[p].nick, j_sel[p][k].row)]]
    /\ j_pc' = [j_pc EXCEPT ![p] = "idle"]
    /\ UNCHANGED <<j_args, j_sel, joins, schedVars, createVars,
                   notRemind, sharedVars>>

NextJoin ==
    \/ \E p \in Threads : JoinSelect(p)
    \/ \E p \in Threads : JoinDeliver(p)

-----------------------------------------------------------------------------
(* Expiry: the reminders requests created are served across long stops of the *)
(* process.  The table is a file and outlives the process; the scheduler      *)
(* thread is started again with the process.                                  *)

MaxRestarts == 2           \* stops of the process in a run
MaxExpiryTicks == 3        \* ticks of the scheduler in such a run
MaxExpiryJoins == 2        \* join-check calls in such a run

\* how long the process is stopped
Downtimes ==
    {(JOIN_EXPIRY_DAYS + 1) * DAY_SECONDS, (RECURRING_EXPIRY_DAYS + 1) * DAY_SECONDS}

\* execute, action "create": what it passes to _create_reminder
ExecuteCreate(reminder_type, deliver_at, recurrence) ==
    [creator |-> "alice", message |-> "tea", channel |-> "#x",
     reminder_type |-> IF reminder_type = "recurring" THEN "time" ELSE reminder_type,
     deliver_at |-> deliver_at,
     recurrence |-> IF reminder_type = "recurring" THEN recurrence ELSE ""]

\* the create requests of the model: an on-join reminder, recurring reminders
\* of the three periods, a one-shot reminder
ExpiryRequests ==
    {ExecuteCreate("join", <<>>, ""),
     ExecuteCreate("recurring", <<"+", 1, "h">>, "hourly"),
     ExecuteCreate("recurring", <<"+", 1, "d">>, "daily"),
     ExecuteCreate("recurring", <<"+", 1, "w">>, "weekly"),
     ExecuteCreate("time", <<"+", 1, "d">>, "")}

\* tables of two rows created at time 0, the first an on-join reminder
ExpiryStores ==
    {<<NewRow(ExecuteCreate("join", <<>>, ""), 0), NewRow(a, 0)>> :
        a \in {q \in ExpiryRequests : CreateError(q, 0) = <<>>}}

InitExpiry ==
    /\ reminders \in ExpiryStores
    /\ IdleScheduler /\ IdleCreate
    /\ j_pc = [p \in Threads |-> "idle"]
    /\ j_args = [p \in Threads |-> [nick |-> "", channel |-> ""]]
    /\ j_sel = [p \in Threads |-> <<>>]
    /\ j_out = [p \in Threads |-> <<>>]
    /\ j_returned = [i \in 1..2 |-> 0]
    /\ joins = 0

\* the process is stopped while the scheduler sleeps and no call is in
\* progress, and started again later; _scheduler_loop starts with a sleep
Restart ==
    /\ sched_pc = "sleep"
    /\ \A p \in Threads : j_pc[p] = "idle" /\ c_pc[p] = "idle"
    /\ restarts < MaxRestarts
    /\ restarts' = restarts + 1
    /\ \E d \in Downtimes : now' = now + d
    /\ UNCHANGED <<reminders, sched_pc, batch, online, http_failures, ticks, due_ids,
                   tick_reports, tick_sends, ok_sends, streak, streak_base,
                   createVars, joinVars, notRemind, image_timestamps, deep_usage>>

\* a tick, and a join check, within the bounds of such a run
ExpiryTick == ticks < MaxExpiryTicks /\ ProcessDue

ExpiryJoin == joins < MaxExpiryJoins /\ JoinSelect(1)

NextExpiry ==
    \/ ExpiryTick
    \/ AttemptDelivery
    \/ SchedulerSleep
    \/ ExpiryJoin
    \/ JoinDeliver(1)
    \/ Restart

-----------------------------------------------------------------------------
(* Citations: client.py, _clean_citation_url, _extract_citations, the         *)
(* collection at the top of each loop iteration and the merge before the      *)
(* success message.  A url is its part before the query, its query as a list  *)
(* of <<key, value>> pairs, and whether urlparse accepts it; glued says that  *)
(* the rest of the query follows the path without a "?".                      *)

TRACKING_PARAMS == {"utm_source", "utm_medium", "utm_campaign", "utm_term", "utm_content"}

MaxTurns == 3              \* provider responses of a request

Url(base, valid, query) == [base |-> base, valid |-> valid, query |-> query, glued |-> FALSE]

\* parse_qs: the keys in the order of their first appearance, each with its values
RECURSIVE parse_qs(_)
parse_qs(query) ==
    IF query = <<>> THEN <<>>
    ELSE LET key == query[1][1]
             same == SelectSeq(query, LAMBDA kv : kv[1] = key)
             others == SelectSeq(query, LAMBDA kv : kv[1] # key)
         IN  <<[key |-> key, values |-> [i \in DOMAIN same |-> same[i][2]]]>>
             \o parse_qs(others)

\* urlencode(params, doseq=True)
RECURSIVE urlencode(_)
urlencode(params) ==
    IF params = <<>> THEN <<>>
    ELSE [i \in DOMAIN params[1].values |-> <<params[1].key, params[1].values[i]>>]
         \o urlencode(Tail(params))

\* _clean_citation_url; when urlparse raises only a leading
\* "?utm_source=openai" goes
clean_citation_url(url) ==
    IF url.valid
    THEN [url EXCEPT !.query =
            urlencode(SelectSeq(parse_qs(url.query),
                                LAMBDA param : param.key \notin TRACKING_PARAMS))]
    ELSE IF url.query # <<>> /\ url.query[1] = <<"utm_source", "openai">>
    THEN [url EXCEPT !.query = Tail(url.query), !.glued = Len(url.query) > 1]
    ELSE url

\* a list without the later copies of its elements
RECURSIVE Unique(_)
Unique(list) ==
    IF list = <<>> THEN <<>>
    ELSE <<list[1]>> \o Unique(SelectSeq(Tail(list), LAMBDA x : x # list[1]))

\* _extract_citations: the cleaned urls of the url_citation annotations of a
\* response that carry a url, each once
NoUrl == [base |-> "", valid |-> TRUE, query |-> <<>>, glued |-> FALSE]
extract_citations(resp) ==
    LET cited == SelectSeq(resp, LAMBDA ann : ann.type = "url_citation" /\ ann.url # NoUrl)
    IN  Unique([i \in DOMAIN cited |-> clean_citation_url(cited[i].url)])

\* the loop's "for url in iter_citations", and the generator's merge
Merge(list, urls) ==
    list \o SelectSeq(Unique(urls), LAMBDA u : \A i \in DOMAIN list : list[i] # u)

Citation(url) == [type |-> "url_citation", url |-> url]

UrlChoices ==
    {Url("https://a.com/x", TRUE, q) :
        q \in {<<>>, <<<<"utm_source", "openai">>>>,
               <<<<"id", "1">>, <<"utm_medium", "m">>, <<"id", "2">>>>}}
    \cup {Url("https://b.org/", TRUE, <<<<"id", "1">>>>)}
    \cup {Url("http://[a.com/x", FALSE, q) :
            q \in {<<<<"utm_source", "openai">>, <<"utm_medium", "m">>>>,
                   <<<<"utm_source", "openai">>>>}}

\* the annotations of one response
ResponseChoices ==
    {<<>>}
    \cup {<<Citation(u)>> : u \in UrlChoices}
    \cup {<<Citation(u), Citation(Url("https://a.com/x", TRUE, <<>>))>> : u \in UrlChoices}
    \cup {<<[type |-> "file_citation", url |-> NoUrl], Citation(NoUrl),
            Citation(Url("https://b.org/", TRUE, <<<<"id", "1">>>>))>>}

IdleCite ==
    /\ cite_pc = "done"
    /\ cite_turns = <<>>
    /\ cite_capped = FALSE
    /\ cite_idx = 0
    /\ all_citations = <<>>
    /\ seen_citation_urls = {}
    /\ cite_sources = <<>>

InitCite ==
    /\ cite_pc = "loop"
    /\ \E n \in 1..MaxTurns : cite_turns \in [1..n -> ResponseChoices]
    /\ cite_capped \in BOOLEAN
    /\ cite_capped => Len(cite_turns) >= 2
    /\ cite_idx = 1
    /\ all_citations = <<>>
    /\ seen_citation_urls = {}
    /\ cite_sources = <<>>

\* the top of a loop iteration: the citations of the current response join
\* the list; the last response ends the loop, unless the cap ended it before
CiteCollect ==
    /\ cite_pc = "loop"
    /\ LET iter_citations == extract_citations(cite_turns[cite_idx])
       IN  /\ all_citations' = Merge(all_citations, iter_citations)
           /\ seen_citation_urls' =
                 seen_citation_urls \cup {iter_citations[i] : i \in DOMAIN iter_citations}
    /\ IF cite_idx + 1 < Len(cite_turns) \/ (cite_idx + 1 = Len(cite_turns) /\ ~cite_capped)
       THEN cite_idx' = cite_idx + 1 /\ UNCHANGED cite_pc
       ELSE cite_idx' = Len(cite_turns) /\ cite_pc' = "final"
    /\ UNCHANGED <<cite_turns, cite_capped, cite_sources, notCite>>

\* the final_result event: the citations of the final response follow the
\* accumulated ones, and the list goes into the success message
CiteMerge ==
    /\ cite_pc = "final"
    /\ cite_sources' = Merge(all_citations, extract_citations(cite_turns[cite_idx]))
    /\ cite_pc' = "done"
    /\ UNCHANGED <<cite_turns, cite_capped, cite_idx, all_citations, seen_citation_urls,
                   notCite>>

NextCite == CiteCollect \/ CiteMerge

-----------------------------------------------------------------------------
(* The knowledge base: src/internal/knowledge/manager.py.  A text is its      *)
(* length, the positions of its ". " and whether it is only whitespace; the   *)
(* collection is the set of its records.                                      *)

CHUNK_SIZE == 1000
CHUNK_OVERLAP == 150
SENTENCE_WINDOW == 100     \* the end of a chunk looks this far back for ". "

MaxKbOps == 4              \* learn and forget calls in a run

KbUrls == {"https://a.com/doc", "https://b.org/faq"}

Text(len, periods, blank) == [len |-> len, periods |-> periods, blank |-> blank]

NoCall == [op |-> "", url |-> "", success |-> FALSE, fetched |-> FALSE, count |-> 0]

Max(a, b) == IF a >= b THEN a ELSE b

\* text.rfind('. ', search_start, end)
rfind(text, search_start, end) ==
    LET found == {q \in text.periods : q >= search_start /\ q + 2 <= end}
    IN  IF found = {} THEN -1 ELSE CHOOSE q \in found : \A r \in found : r <= q

\* _chunk_text from a start on: the <<start, end>> of the chunks it appends
RECURSIVE ChunksFrom(_, _)
ChunksFrom(text, start) ==
    IF start >= text.len THEN <<>>
    ELSE LET end0 == start + CHUNK_SIZE
             last_period == rfind(text, Max(start, end0 - SENTENCE_WINDOW), end0)
             end == IF end0 < text.len /\ last_period > start THEN last_period + 1 ELSE end0
             chunk == IF text.blank THEN <<>> ELSE <<<<start, end>>>>
             next == end - CHUNK_OVERLAP
         IN  chunk \o (IF next >= text.len THEN <<>> ELSE ChunksFrom(text, next))

\* _chunk_text
chunk_text(text) == IF text.len = 0 THEN <<>> ELSE ChunksFrom(text, 0)

\* hashlib.md5(url.encode()).hexdigest()[:8], on the urls of the model
url_hash(url) == IF url = "https://a.com/doc" THEN "43890800" ELSE "29341342"

\* collection.get(where={"source_url": url}) with limit=1
MatchingOne(collection, url) ==
    LET found == {c \in collection : c.source_url = url}
    IN  IF found = {} THEN {}
        ELSE {CHOOSE c \in found : \A d \in found : c.chunk_index <= d.chunk_index}

\* collection.get(where={"source_url": url})
Matching(collection, url) == {c \in collection : c.source_url = url}

\* an add that keeps the first record only
AddFirstOnly(collection, records) ==
    collection \cup {r \in records : r.chunk_index = 0 /\ \A c \in collection : c.id # r.id}

\* collection.add: a record whose id is already there is ignored
Add(collection, records) ==
    collection \cup {r \in records : \A c \in collection : c.id # r.id}

KbTexts ==
    {Text(0, {}, FALSE), Text(40, {}, TRUE), Text(500, {}, FALSE),
     Text(900, {}, FALSE), Text(2000, {950}, FALSE)}

IdleKB ==
    /\ kb_collection = {}
    /\ kb_content = [u \in KbUrls |-> Text(0, {}, FALSE)]
    /\ kb_first = [u \in KbUrls |-> -1]
    /\ kb_prev = NoCall
    /\ kb_last = NoCall
    /\ kb_ops = MaxKbOps

InitKB ==
    /\ kb_collection = {}
    /\ kb_content \in [KbUrls -> KbTexts]
    /\ kb_first = [u \in KbUrls |-> -1]
    /\ kb_prev = NoCall
    /\ kb_last = NoCall
    /\ kb_ops = 0

\* learn_from_url; fetch_ok and embed_ok are whether the page and the
\* embeddings arrive
LearnFromUrl ==
    /\ kb_ops < MaxKbOps
    /\ kb_ops' = kb_ops + 1
    /\ kb_prev' = kb_last
    /\ \E url \in KbUrls, fetch_ok \in BOOLEAN, embed_ok \in BOOLEAN :
        LET chunks == chunk_text(kb_content[url])
            records == {[id |-> <<url_hash(url), i - 1>>, source_url |-> url,
                         chunk_index |-> i - 1, total_chunks |-> Len(chunks)] :
                            i \in DOMAIN chunks}
            failed(fetched) == [op |-> "learn", url |-> url, success |-> FALSE,
                                fetched |-> fetched, count |-> 0]
        IN  IF MatchingOne(kb_collection, url) # {}
            THEN kb_last' = failed(FALSE) /\ UNCHANGED <<kb_collection, kb_first>>
            ELSE IF ~fetch_ok
            THEN kb_last' = failed(FALSE) /\ UNCHANGED <<kb_collection, kb_first>>
            ELSE IF chunks = <<>> \/ ~embed_ok
            THEN kb_last' = failed(TRUE) /\ UNCHANGED <<kb_collection, kb_first>>
            ELSE /\ kb_collection' = Add(kb_collection, records)
                 /\ kb_last' = [op |-> "learn", url |-> url, success |-> TRUE,
                                fetched |-> TRUE, count |-> Len(chunks)]
                 /\ kb_first' = IF kb_first[url] = -1
                                THEN [kb_first EXCEPT ![url] = Len(chunks)]
                                ELSE kb_first
    /\ UNCHANGED <<kb_content, notKB>>

\* forget_url
ForgetUrl ==
    /\ kb_ops < MaxKbOps
    /\ kb_ops' = kb_ops + 1
    /\ kb_prev' = kb_last
    /\ \E url \in KbUrls :
        LET existing == Matching(kb_collection, url)
        IN  IF existing = {}
            THEN /\ kb_last' = [op |-> "forget", url |-> url, success |-> FALSE,
                                fetched |-> FALSE, count |-> 0]
                 /\ UNCHANGED kb_collection
            ELSE /\ kb_collection' = kb_collection \ existing
                 /\ kb_last' = [op |-> "forget", url |-> url, success |-> TRUE,
                                fetched |-> FALSE, count |-> Cardinality(existing)]
    /\ UNCHANGED <<kb_content, kb_first, notKB>>

NextKB == LearnFromUrl \/ ForgetUrl

-----------------------------------------------------------------------------
(* Chat history: the access check of ChatHistoryTool.execute and the          *)
(* arguments the tool loop injects (client.py, the body of the loop over the  *)
(* function calls).                                                           *)

\* str.strip() on the channel names of the model
Strip(name) ==
    CASE name = " #b" -> "#b"
      [] name = "#a " -> "#a"
      [] name = " " -> ""
      [] OTHER -> name

DENIED == <<"Error: You can only view chat history for the channel you're currently in">>

HistoryRequests ==
    [permission_level : {"normal", "admin", "owner"},
     channel : {"#a", "#A", "#a ", "#b", ""}]

\* the arguments of the provider's call; it may name the injected ones itself
HistoryArgs ==
    [channel : {"#a", "#A", "#b", " #b", " "},
     _permission_level : {"", "owner"}]

\* the arguments after the injection of the request's channel and level
Injected(args, request) ==
    [channel |-> args.channel,
     _current_channel |-> request.channel,
     _permission_level |-> request.permission_level]

\* ChatHistoryTool.execute up to the query: the error it returns, or <<>>
HistoryError(a, db_exists) ==
    IF ~db_exists THEN <<"Error: Database not found. No chat history available.">>
    ELSE IF a.channel = "" \/ Strip(a.channel) = "" THEN <<"Error: Channel is required.">>
    ELSE IF /\ a._permission_level \notin {"owner", "admin"}
            /\ a._current_channel # ""
            /\ Lower(Strip(a.channel)) # Lower(Strip(a._current_channel))
    THEN DENIED \o <<a._current_channel>>
    ELSE <<>>

IdleHistory ==
    /\ h_pc = "done"
    /\ h_request = [permission_level |-> "normal", channel |-> ""]
    /\ h_args = [channel |-> "", _permission_level |-> ""]
    /\ h_db = FALSE
    /\ h_result = <<>>
    /\ h_read = {}

InitHistory ==
    /\ h_pc = "call"
    /\ h_request \in HistoryRequests
    /\ h_args \in HistoryArgs
    /\ h_db \in BOOLEAN
    /\ h_result = <<>>
    /\ h_read = {}

\* the tool loop runs the call: injection, then execute
QueryChatHistory ==
    /\ h_pc = "call"
    /\ LET a == Injected(h_args, h_request)
           error == HistoryError(a, h_db)
       IN  IF error # <<>>
           THEN h_result' = error /\ h_read' = {}
           ELSE /\ h_result' = <<"history of ", Lower(Strip(a.channel))>>
                /\ h_read' = {Lower(Strip(a.channel))}
    /\ h_pc' = "done"
    /\ UNCHANGED <<h_request, h_args, h_db, notHistory>>

NextHistory == QueryChatHistory

-----------------------------------------------------------------------------
(* The prompt: client.py, _build_context_prompt, and the rules it takes from  *)
(* user_rules.py.  A prompt is the list of its parts (joined by newlines), a  *)
(* part the list of its pieces.                                               *)

SYSTEM_PROMPT == <<"You are Lolo.">>
DEEP_INSTRUCTIONS == <<"=== DEEP RESEARCH MODE ACTIVATED === ... === END DEEP RESEARCH MODE ===">>

Entry(content, enabled) == [content |-> content, enabled |-> enabled]

\* the rules file: per lower-case nick the entries of that user
RulesChoices ==
    [{"alice", "bob"} ->
        {<<>>, <<Entry("be terse", TRUE)>>, <<Entry("be terse", FALSE)>>,
         <<Entry("talk like a pirate", FALSE), Entry("be terse", TRUE)>>}]

\* UserRulesTool.get_active_rules: one "- content" line per enabled entry of
\* the user, <<>> for None
get_active_rules(rules, nick) ==
    LET active == SelectSeq(rules[Lower(nick)], LAMBDA e : e.enabled)
    IN  [i \in DOMAIN active |-> <<"- ", active[i].content>>]

HistoryMessage(t, nick, content) == [timestamp |-> t, nick |-> nick, content |-> content]

PromptRequests ==
    [nick : {"alice", "Alice", "bob"},
     channel : {"#a", "#b"},
     message : {"hi"},
     history : {<<>>, <<HistoryMessage("12:00:00", "bob", "yo")>>},
     current_time : {"12:00:01", "12:00:02"}]

\* _build_context_prompt: the parts, and the number of parts up to the end of
\* the last static section
build_context_prompt(config, req) ==
    LET head == <<config.system_prompt, <<"">>>>
                \o (IF config.deep_mode THEN <<DEEP_INSTRUCTIONS, <<"">>>> ELSE <<>>)
        user_rules == get_active_rules(config.rules, req.nick)
        rules == IF user_rules # <<>>
                 THEN <<<<"=== CUSTOM RULES FOR THIS USER ===">>,
                        <<"The following custom rules have been set by/for ", req.nick,
                          ". Apply these rules when responding to them:">>>>
                      \o user_rules
                      \o <<<<"=== END CUSTOM RULES ===">>, <<"">>>>
                 ELSE <<>>
        question == <<<<"=== CURRENT QUESTION ===">>,
                      <<"Timestamp: ", req.current_time>>,
                      <<"Channel: ", req.channel>>,
                      <<"User: ", req.nick>>,
                      <<"Message: ", req.message>>,
                      <<"">>>>
        context == IF req.history # <<>>
                   THEN <<<<"=== RECENT CONVERSATION CONTEXT ===">>,
                          <<"(Last ", ToString(Len(req.history)), " messages from ",
                            req.channel, " for context)">>,
                          <<"">>>>
                        \o [i \in DOMAIN req.history |->
                              <<"[", req.history[i].timestamp, "] ", req.history[i].nick,
                                ": ", req.history[i].content>>]
                        \o <<<<"">>, <<"=== END OF CONTEXT ===">>>>
                   ELSE <<>>
        tail == <<<<"">>, <<"Please respond to the CURRENT QUESTION above.">>>>
    IN  [parts |-> head \o rules \o question \o context \o tail,
         prefix |-> Len(head) + Len(rules)]

Calls == 1..2

NoPrompt == [parts |-> <<>>, prefix |-> 0]

IdlePrompt ==
    /\ bp_config = [system_prompt |-> SYSTEM_PROMPT, deep_mode |-> FALSE,
                    rules |-> [n \in {"alice", "bob"} |-> <<>>]]
    /\ bp_requests = <<>>
    /\ bp_prompts = <<>>

InitPrompt ==
    /\ bp_config \in [system_prompt : {SYSTEM_PROMPT}, deep_mode : BOOLEAN,
                      rules : RulesChoices]
    /\ bp_requests \in [Calls -> PromptRequests]
    /\ bp_prompts = [i \in Calls |-> NoPrompt]

\* one request's prompt is built
BuildContextPrompt(i) ==
    /\ bp_prompts[i] = NoPrompt
    /\ bp_prompts' = [bp_prompts EXCEPT ![i] = build_context_prompt(bp_config, bp_requests[i])]
    /\ UNCHANGED <<bp_config, bp_requests, notPrompt>>

NextPrompt == \E i \in Calls : BuildContextPrompt(i)

-----------------------------------------------------------------------------
(* The mention endpoints: router.py, handle_mention and handle_mention_stream, *)
(* and mention.py, handle_mention.                                             *)

MaxProviderCalls == 2      \* provider calls of one request

MentionRequests ==
    [endpoint : {"/mention", "/mention/stream"},
     nick : Nicks,
     permission_level : {"owner", "admin", "normal", "ignored"},
     message : {"hi", "hi?"}]

IdleMention ==
    /\ m_pc = "done"
    /\ m_request = [endpoint |-> "", nick |-> "", permission_level |-> "", message |-> ""]
    /\ m_invoked = FALSE
    /\ m_provider_calls = 0
    /\ m_usage_rows = 0
    /\ m_reply = ""

InitMention ==
    /\ m_pc = "received"
    /\ m_request \in MentionRequests
    /\ m_invoked = FALSE
    /\ m_provider_calls = 0
    /\ m_usage_rows = 0
    /\ m_reply = ""

\* POST /mention: mention.handle_mention reads request.deep_mode, which
\* MentionRequest does not have, before its try block; the AttributeError
\* reaches the except of the router, which answers with an error
HandleMention ==
    /\ m_pc = "received"
    /\ m_request.endpoint = "/mention"
    /\ m_reply' = "error"
    /\ m_pc' = "done"
    /\ UNCHANGED <<m_request, m_invoked, m_provider_calls, m_usage_rows, notMention>>

\* POST /mention/stream: run_ai_generation creates the generator with the
\* permission_level of the request and iterates it
HandleMentionStream ==
    /\ m_pc = "received"
    /\ m_request.endpoint = "/mention/stream"
    /\ \/ /\ m_invoked' = TRUE      \* the client is there
          /\ m_pc' = "generating"
          /\ UNCHANGED m_reply
       \/ /\ m_reply' = "error"     \* get_ai_client raises
          /\ m_pc' = "done"
          /\ UNCHANGED m_invoked
    /\ UNCHANGED <<m_request, m_provider_calls, m_usage_rows, notMention>>

\* the generator: a provider call raises, or returns function calls, or
\* returns the final response, whose usage is logged before the terminal frame
MentionProviderCall ==
    /\ m_pc = "generating"
    /\ m_provider_calls < MaxProviderCalls
    /\ m_provider_calls' = m_provider_calls + 1
    /\ \/ /\ m_reply' = "error"
          /\ m_pc' = "done"
          /\ UNCHANGED m_usage_rows
       \/ /\ m_provider_calls + 1 < MaxProviderCalls
          /\ UNCHANGED <<m_reply, m_pc, m_usage_rows>>
       \/ /\ m_usage_rows' = m_usage_rows + 1
          /\ m_reply' \in {"success", "null", "error"}
          /\ m_pc' = "done"
    /\ UNCHANGED <<m_request, m_invoked, notMention>>

NextMention == HandleMention \/ HandleMentionStream \/ MentionProviderCall

-----------------------------------------------------------------------------
(* The blocking path: mention.handle_mention calls                            *)
(* AIClient.generate_response_with_context, which iterates the generator of   *)
(* generate_response_with_context_stream and returns one string.              *)

NO_FINAL_MESSAGE == <<"I couldn't generate a proper response.">>
FALLBACK_MESSAGE == <<"fallback">>
ATTRIBUTE_ERROR == <<"Internal error: 'MentionRequest' object has no attribute 'deep_mode'">>

MaxStatusEvents == 2    \* status events before the terminal event

\* the terminal event of generate_response_with_context_stream
TerminalEvents ==
    {Chunk("success", <<"answer">>), Chunk("null", <<>>),
     Chunk("error", GENERIC_ERROR), Chunk("error", LimitMessage(3600))}

\* what the generator yields for one request: status events, then one
\* terminal event
EventSequences ==
    {ProcessingChunks(ev) \o <<t>> :
        ev \in UNION {[1..n -> StatusMessages] : n \in 0..MaxStatusEvents},
        t \in TerminalEvents}

MentionResponse(status, message) == [status |-> status, message |-> message]
NoMentionResponse == MentionResponse("", <<>>)

\* the for loop of generate_response_with_context from an event on: the
\* message it has so far, and whether it has returned the null marker
Iterate(final_message, event) ==
    IF event.status = "success"
    THEN [final_message |-> event.message, returned |-> FALSE]
    ELSE IF event.status = "null"
    THEN [final_message |-> <<NULL_RESPONSE_MARKER>>, returned |-> TRUE]
    ELSE [final_message |-> final_message, returned |-> FALSE]

\* handle_mention after generate_response_with_context has returned
Respond(response_message) ==
    IF response_message = <<NULL_RESPONSE_MARKER>>
    THEN MentionResponse("null", <<>>)
    ELSE MentionResponse("success", response_message)

IdleBlocking ==
    /\ b_pc = "done"
    /\ b_has_deep_mode = FALSE
    /\ b_events = <<>>
    /\ b_terminal = Chunk("", <<>>)
    /\ b_final_message = <<>>
    /\ b_response = NoMentionResponse

\* the request object either is a MentionRequest as router.py declares it,
\* without deep_mode, or carries the attribute
InitBlocking ==
    /\ b_pc = "received"
    /\ b_has_deep_mode \in BOOLEAN
    /\ b_events \in EventSequences
    /\ b_terminal = b_events[Len(b_events)]
    /\ b_final_message = <<>>
    /\ b_response = NoMentionResponse

\* handle_mention up to the call of generate_response_with_context: the read
\* of request.deep_mode before the try (the router answers for the
\* AttributeError), then get_ai_client inside the try
BlockingEnter ==
    /\ b_pc = "received"
    /\ IF ~b_has_deep_mode
       THEN /\ b_response' = MentionResponse("error", ATTRIBUTE_ERROR)
            /\ b_pc' = "done"
            /\ UNCHANGED b_final_message
       ELSE \/ /\ b_final_message' = NO_FINAL_MESSAGE
               /\ b_pc' = "iterating"
               /\ UNCHANGED b_response
            \/ /\ b_response' = MentionResponse("error", FALLBACK_MESSAGE)
               /\ b_pc' = "done"
               /\ UNCHANGED b_final_message
    /\ UNCHANGED <<b_has_deep_mode, b_events, b_terminal, notBlocking>>

\* generate_response_with_context: one pass of "for event in generator"
BlockingEvent ==
    /\ b_pc = "iterating"
    /\ b_events # <<>>
    /\ LET it == Iterate(b_final_message, Head(b_events))
       IN  /\ b_final_message' = it.final_message
           /\ b_pc' = IF it.returned THEN "returned" ELSE "iterating"
    /\ b_events' = Tail(b_events)
    /\ UNCHANGED <<b_has_deep_mode, b_terminal, b_response, notBlocking>>

\* the generator is exhausted: return final_message
BlockingExhausted ==
    /\ b_pc = "iterating"
    /\ b_events = <<>>
    /\ b_pc' = "returned"
    /\ UNCHANGED <<b_has_deep_mode, b_events, b_terminal, b_final_message, b_response,
                   notBlocking>>

\* handle_mention builds the MentionResponse from the returned string
BlockingRespond ==
    /\ b_pc = "returned"
    /\ b_response' = Respond(b_final_message)
    /\ b_pc' = "done"
    /\ UNCHANGED <<b_has_deep_mode, b_events, b_terminal, b_final_message, notBlocking>>

NextBlocking == BlockingEnter \/ BlockingEvent \/ BlockingExhausted \/ BlockingRespond

-----------------------------------------------------------------------------
(* The permission gates of execute_shell and irc_command, as the tool loop    *)
(* calls them: the injection of permission_level, then tool.execute.          *)

GateLevels == {"owner", "admin", "normal", "ignored"}
ABSENT == "absent"        \* a keyword argument the model did not supply

MaxGatedCalls == 2        \* gated function calls of one request

NORMAL_USER_COMMANDS ==
    {"whois", "whowas", "ns_info", "nickserv_info", "cs_info", "chanserv_info",
     "alis_list", "alis_search", "version", "time", "bot_status", "channel_info",
     "channel_list", "user_status", "channel_ops", "channel_voiced", "channel_topic",
     "find_user"}

ADMIN_COMMANDS ==
    {"kick", "ban", "unban", "quiet", "unquiet", "op", "deop", "voice", "devoice",
     "halfop", "dehalfop", "topic", "mode", "invite", "cs_op", "cs_deop", "cs_voice",
     "cs_devoice", "cs_kick", "cs_ban", "cs_unban", "cs_quiet", "cs_unquiet",
     "cs_topic", "cs_flags", "cs_access", "cs_akick", "cs_invite", "cs_clear",
     "ns_ghost", "ns_release", "ns_regain"}

OWNER_COMMANDS == {}

\* the arguments the model may send with a gated call
GatedArgs ==
    [name : {"execute_shell"}, command : {"ls", ""},
     permission_level : GateLevels \cup {ABSENT}]
    \cup
    [name : {"irc_command"}, command : {"whois", "WHOIS", "kick", "Kick", "nosuch"},
     permission_level : GateLevels \cup {ABSENT}]

\* the injection that leaves a value supplied by the model in place
InjectIfMissing(func_args, level) ==
    IF func_args.permission_level = ABSENT
    THEN [func_args EXCEPT !.permission_level = level]
    ELSE func_args

\* func_args['permission_level'] = permission_level
Inject(func_args, level) == [func_args EXCEPT !.permission_level = level]

\* the parameter default of both execute methods
LevelSeen(func_args) ==
    IF func_args.permission_level = ABSENT THEN "normal" ELSE func_args.permission_level

DENIED_PREFIX == "Permission denied:"

Done(result, ran) == [result |-> result, ran |-> ran]

\* what subprocess.run may end in
ShellOutcomes ==
    {<<"STDOUT:", "Exit code: 0">>, <<"Error: Command timed out">>,
     <<"Error executing command:">>}

\* ShellExecTool.execute; ran: subprocess.run was called
ShellExecute(func_args, outcome) ==
    IF LevelSeen(func_args) # "owner"
    THEN Done(<<DENIED_PREFIX, "This tool is restricted to the bot owner only.">>, FALSE)
    ELSE IF func_args.command = ""
    THEN Done(<<"Error: No command provided.">>, FALSE)
    ELSE Done(outcome, TRUE)

\* IRCCommandTool._check_permission
check_permission(command, level) ==
    LET command_lower == Lower(command)
    IN  IF level = "owner" THEN [allowed |-> TRUE, error_msg |-> <<>>]
        ELSE IF level = "admin"
        THEN IF command_lower \in OWNER_COMMANDS
             THEN [allowed |-> FALSE, error_msg |-> <<"is restricted to bot owner only.">>]
             ELSE [allowed |-> TRUE, error_msg |-> <<>>]
        ELSE IF level = "normal"
        THEN IF command_lower \in NORMAL_USER_COMMANDS
             THEN [allowed |-> TRUE, error_msg |-> <<>>]
             ELSE [allowed |-> FALSE, error_msg |-> <<"requires admin privileges.">>]
        ELSE [allowed |-> FALSE,
              error_msg |-> <<"You don't have permission to use IRC commands.">>]

\* what the POST to /irc/execute may end in
IrcOutcomes ==
    {<<"output">>, <<"Error:", "Unknown error">>,
     <<"Error: Cannot connect to IRC command service.">>}

\* IRCCommandTool.execute; ran: requests.post was called
IrcExecute(func_args, outcome) ==
    LET check == check_permission(func_args.command, LevelSeen(func_args))
    IN  IF ~check.allowed
        THEN Done(<<DENIED_PREFIX>> \o check.error_msg, FALSE)
        ELSE Done(outcome, TRUE)

Handled(call, level_seen, done) ==
    [name |-> call.name, command |-> call.command, supplied |-> call.permission_level,
     seen |-> level_seen, result |-> done.result, ran |-> done.ran]

IdleGate ==
    /\ g_level = ""
    /\ g_handled = <<>>
    /\ shell_runs = 0
    /\ irc_posts = 0

InitGate ==
    /\ g_level \in GateLevels
    /\ g_handled = <<>>
    /\ shell_runs = 0
    /\ irc_posts = 0

\* the tool loop handles an execute_shell call of the request
CallExecuteShell ==
    /\ g_level # ""
    /\ Len(g_handled) < MaxGatedCalls
    /\ \E call \in GatedArgs, outcome \in ShellOutcomes :
         /\ call.name = "execute_shell"
         /\ LET func_args == Inject(call, g_level)
                done == ShellExecute(func_args, outcome)
            IN  /\ g_handled' = Append(g_handled, Handled(call, LevelSeen(func_args), done))
                /\ shell_runs' = shell_runs + (IF done.ran THEN 1 ELSE 0)
    /\ UNCHANGED <<g_level, irc_posts, notGate>>

\* the tool loop handles an irc_command call of the request
CallIrcCommand ==
    /\ g_level # ""
    /\ Len(g_handled) < MaxGatedCalls
    /\ \E call \in GatedArgs, outcome \in IrcOutcomes :
         /\ call.name = "irc_command"
         /\ LET func_args == Inject(call, g_level)
                done == IrcExecute(func_args, outcome)
            IN  /\ g_handled' = Append(g_handled, Handled(call, LevelSeen(func_args), done))
                /\ irc_posts' = irc_posts + (IF done.ran THEN 1 ELSE 0)
    /\ UNCHANGED <<g_level, shell_runs, notGate>>

NextGate == CallExecuteShell \/ CallIrcCommand

-----------------------------------------------------------------------------
(* manage_user_rules: UserRulesTool on data/user_rules.json.  The file maps a *)
(* lower-case nick to {"entries": [...], "next_id": N}; a nick that is not in *)
(* the file reads as no entries and next_id 1.                                *)

ADMIN_PERMISSION_LEVELS == {"owner", "admin"}

MaxRuleCalls == 3         \* manage_user_rules calls in one run

RuleUsers == {"alice", "bob"}
None == <<>>              \* an optional argument is <<>> or <<value>>
Some(x) == <<x>>

RuleEntry(id, content, enabled) == [id |-> id, content |-> content, enabled |-> enabled]
UserData(entries, next_id) == [entries |-> entries, next_id |-> next_id]
NoRules == [u \in RuleUsers |-> UserData(<<>>, 1)]

\* the arguments the model may send with a manage_user_rules call
RuleArgs ==
    LET Who == [requesting_user : {"Alice", "bob"},
                target_user : {None, Some("alice"), Some("bob")}]
        Which == {[entry_id |-> None, search_term |-> None],
                  [entry_id |-> Some(1), search_term |-> None],
                  [entry_id |-> Some(2), search_term |-> None],
                  [entry_id |-> None, search_term |-> Some("cat")]}
        Args(action, who, content, which) ==
            [action |-> action, requesting_user |-> who.requesting_user,
             target_user |-> who.target_user, content |-> content,
             entry_id |-> which.entry_id, search_term |-> which.search_term]
    IN  {Args(a, w, None, [entry_id |-> None, search_term |-> None]) :
            a \in {"list", "clear"}, w \in Who}
        \cup {Args("add", w, c, [entry_id |-> None, search_term |-> None]) :
                w \in Who, c \in {None, Some("cats")}}
        \cup {Args("update", w, c, s) : w \in Who, c \in {None, Some("pirate")}, s \in Which}
        \cup {Args(a, w, None, s) :
                a \in {"delete", "enable", "disable"}, w \in Who, s \in Which}

\* search_lower in content.lower()
Contains(content, term) == <<content, term>> \in {<<"cats", "cat">>}

\* index of the first entry that satisfies Test, 0 for None
FirstIndex(entries, Test(_)) ==
    IF \E i \in DOMAIN entries : Test(entries[i])
    THEN CHOOSE i \in DOMAIN entries :
            /\ Test(entries[i])
            /\ \A j \in 1..(i - 1) : ~Test(entries[j])
    ELSE 0

find_entry_by_search(entries, search_term) ==
    FirstIndex(entries, LAMBDA e : Contains(e.content, search_term))

\* target_user or requesting_user, lower-cased
EffectiveTarget(args) ==
    Lower(IF args.target_user # None THEN args.target_user[1] ELSE args.requesting_user)

\* the permission check at the head of execute
RulesDenied(args, level) ==
    /\ args.target_user # None
    /\ Lower(args.target_user[1]) # Lower(args.requesting_user)
    /\ level \notin ADMIN_PERMISSION_LEVELS

RuleResult(saved, data, kind, assigned) ==
    [saved |-> saved, data |-> data, kind |-> kind, assigned |-> assigned]

\* the entry that update, delete, enable and disable work on: by id, else by
\* search term; 0 when there is none
TargetEntry(entries, args) ==
    IF args.entry_id # None
    THEN FirstIndex(entries, LAMBDA e : e.id = args.entry_id[1])
    ELSE IF args.search_term # None
    THEN find_entry_by_search(entries, args.search_term[1])
    ELSE 0

Remove(entries, i) == [j \in 1..(Len(entries) - 1) |-> IF j < i THEN entries[j] ELSE entries[j + 1]]

SetEnabled(entries, i, enabled) == [entries EXCEPT ![i].enabled = enabled]

\* enable and disable: one entry, or all when neither id nor term is given
Toggle(user_data, args, enabled) ==
    LET entries == user_data.entries
        i == TargetEntry(entries, args)
    IN  IF args.entry_id # None \/ args.search_term # None
        THEN IF i = 0
             THEN RuleResult(FALSE, user_data, "not found", 0)
             ELSE RuleResult(TRUE, [user_data EXCEPT !.entries = SetEnabled(entries, i, enabled)],
                             "toggled", 0)
        ELSE IF entries = <<>>
        THEN RuleResult(FALSE, user_data, "nothing", 0)
        ELSE RuleResult(TRUE,
                        [user_data EXCEPT !.entries =
                            [j \in DOMAIN entries |-> [entries[j] EXCEPT !.enabled = enabled]]],
                        "toggled all", 0)

\* the clear branch of execute
Clear(user_data) ==
    IF user_data.entries = <<>>
    THEN RuleResult(FALSE, user_data, "nothing", 0)
    ELSE RuleResult(TRUE, UserData(<<>>, 1), "cleared", 0)

\* execute after the permission check, on the data of the effective target:
\* whether _save_user_data is called, with which data, the kind of result,
\* and the id that add has assigned
ApplyAction(user_data, args) ==
    LET entries == user_data.entries
        next_id == user_data.next_id
        i == TargetEntry(entries, args)
    IN  CASE args.action = "list" ->
               RuleResult(FALSE, user_data, IF entries = <<>> THEN "nothing" ELSE "listed", 0)
          [] args.action = "add" ->
               IF args.content = None
               THEN RuleResult(FALSE, user_data, "no content", 0)
               ELSE RuleResult(TRUE,
                               UserData(Append(entries, RuleEntry(next_id, args.content[1], TRUE)),
                                        next_id + 1),
                               "added", next_id)
          [] args.action = "update" ->
               IF args.content = None
               THEN RuleResult(FALSE, user_data, "no content", 0)
               ELSE IF args.entry_id = None /\ args.search_term = None
               THEN RuleResult(FALSE, user_data, "unspecified", 0)
               ELSE IF i = 0
               THEN RuleResult(FALSE, user_data, "not found", 0)
               ELSE RuleResult(TRUE,
                               [user_data EXCEPT !.entries[i].content = args.content[1]],
                               "updated", 0)
          [] args.action = "delete" ->
               IF args.entry_id = None /\ args.search_term = None
               THEN RuleResult(FALSE, user_data, "unspecified", 0)
               ELSE IF i = 0
               THEN RuleResult(FALSE, user_data, "not found", 0)
               ELSE RuleResult(TRUE, [user_data EXCEPT !.entries = Remove(entries, i)],
                               "deleted", 0)
          [] args.action = "clear" -> Clear(user_data)
          [] args.action = "enable" -> Toggle(user_data, args, TRUE)
          [] args.action = "disable" -> Toggle(user_data, args, FALSE)

\* the entries of every user, as get_active_rules reads them
StoredEntries(data) == [u \in RuleUsers |-> data[u].entries]

LastCall(nick, level, target, assigned) ==
    [nick |-> nick, level |-> level, target |-> target, assigned |-> assigned]
NoCallYet == LastCall("", "", "", 0)

IdleRules ==
    /\ ur_file = NoRules
    /\ ur_high = [u \in RuleUsers |-> 0]
    /\ ur_last = NoCallYet
    /\ ur_calls = 0

\* the file as _ensure_file_exists leaves it
InitRules ==
    /\ ur_file = NoRules
    /\ ur_high = [u \in RuleUsers |-> 0]
    /\ ur_last = NoCallYet
    /\ ur_calls = 0

\* the tool loop handles a manage_user_rules call of a request by nick with
\* level: permission_level is injected, requesting_user and target_user are
\* the model's; execute runs to its return
ManageUserRules ==
    \E nick \in {"alice", "bob"}, level \in {"normal", "admin"}, args \in RuleArgs :
        LET target == EffectiveTarget(args)
            r == ApplyAction(ur_file[target], args)
        IN  /\ ur_calls < MaxRuleCalls
            /\ ur_calls' = ur_calls + 1
            /\ IF RulesDenied(args, level)
               THEN /\ ur_last' = LastCall(nick, level, "", 0)
                    /\ UNCHANGED <<ur_file, ur_high>>
               ELSE /\ ur_file' = IF r.saved THEN [ur_file EXCEPT ![target] = r.data]
                                  ELSE ur_file
                    /\ ur_high' = IF r.assigned > ur_high[target]
                                  THEN [ur_high EXCEPT ![target] = r.assigned]
                                  ELSE ur_high
                    /\ ur_last' = LastCall(nick, level, target, r.assigned)
            /\ UNCHANGED notRules

NextRules == ManageUserRules

-----------------------------------------------------------------------------
(* manage_user_rules in two request threads at once.  A mutation is           *)
(* _get_user_data (a load), the change on the loaded data, then               *)
(* _save_user_data: a second load, open(rules_file, "w"), which truncates     *)
(* the file, and json.dump with the close.  There is no lock.                 *)

RuleThreads == 1..2

FileState(valid, data) == [valid |-> valid, data |-> data]

\* _load_rules: a file that is not valid JSON reads as {}
load_rules(file) == IF file.valid THEN file.data ELSE NoRules

\* the calls of the two threads: each adds its own content for a user, or lists
RaceArgs(t) ==
    {[action |-> a, requesting_user |-> u, target_user |-> None,
      content |-> IF a = "add" THEN Some(IF t = 1 THEN "cats" ELSE "pirate") ELSE None,
      entry_id |-> None, search_term |-> None] :
        a \in {"add", "list"}, u \in {"Alice", "bob"}}

\* rules files left by earlier requests
RaceStores ==
    {NoRules,
     [NoRules EXCEPT !["alice"] = UserData(<<RuleEntry(1, "tea", TRUE)>>, 2)],
     [NoRules EXCEPT !["alice"] = UserData(<<RuleEntry(1, "tea", TRUE)>>, 2),
                     !["bob"] = UserData(<<RuleEntry(1, "tea", FALSE)>>, 2)]}

NoLocal == [user_data |-> UserData(<<>>, 1), all_rules |-> NoRules]

IdleRace ==
    /\ rr_file = FileState(TRUE, NoRules)
    /\ rr_pc = [t \in RuleThreads |-> "done"]
    /\ rr_args = [t \in RuleThreads |-> <<>>]
    /\ rr_local = [t \in RuleThreads |-> NoLocal]
    /\ rr_partial_seen = FALSE

InitRace ==
    /\ rr_file \in {FileState(TRUE, s) : s \in RaceStores}
    /\ rr_pc = [t \in RuleThreads |-> "called"]
    /\ rr_args \in {f \in [RuleThreads -> UNION {RaceArgs(t) : t \in RuleThreads}] :
                        \A t \in RuleThreads : f[t] \in RaceArgs(t)}
    /\ rr_local = [t \in RuleThreads |-> NoLocal]
    /\ rr_partial_seen = FALSE

\* execute up to the call of _save_user_data, or to its return for list
RaceGet(t) ==
    /\ rr_pc[t] = "called"
    /\ LET target == EffectiveTarget(rr_args[t])
           r == ApplyAction(load_rules(rr_file)[target], rr_args[t])
       IN  /\ rr_local' = [rr_local EXCEPT ![t].user_data = r.data]
           /\ rr_pc' = [rr_pc EXCEPT ![t] = IF r.saved THEN "save" ELSE "done"]
    /\ rr_partial_seen' = (rr_partial_seen \/ ~rr_file.valid)
    /\ UNCHANGED <<rr_file, rr_args, notRace>>

\* _save_user_data: all_rules = self._load_rules(); all_rules[nick] = data
RaceSaveLoad(t) ==
    /\ rr_pc[t] = "save"
    /\ rr_local' = [rr_local EXCEPT ![t].all_rules =
            [load_rules(rr_file) EXCEPT ![EffectiveTarget(rr_args[t])] = rr_local[t].user_data]]
    /\ rr_partial_seen' = (rr_partial_seen \/ ~rr_file.valid)
    /\ rr_pc' = [rr_pc EXCEPT ![t] = "open"]
    /\ UNCHANGED <<rr_file, rr_args, notRace>>

\* _save_rules: open(self.rules_file, "w") truncates the file
RaceOpen(t) ==
    /\ rr_pc[t] = "open"
    /\ rr_file' = FileState(FALSE, NoRules)
    /\ rr_pc' = [rr_pc EXCEPT ![t] = "dump"]
    /\ UNCHANGED <<rr_args, rr_local, rr_partial_seen, notRace>>

\* _save_rules: json.dump and the close.  When the other thread has written
\* since this thread's open, the bytes of the two writers overlap: the file
\* holds this thread's text, followed by what is left of the longer text
RaceDump(t) ==
    /\ rr_pc[t] = "dump"
    /\ \/ rr_file' = FileState(TRUE, rr_local[t].all_rules)
       \/ /\ rr_file.valid
          /\ rr_file' = FileState(FALSE, NoRules)
    /\ rr_pc' = [rr_pc EXCEPT ![t] = "done"]
    /\ UNCHANGED <<rr_args, rr_local, rr_partial_seen, notRace>>

NextRace ==
    \E t \in RuleThreads : RaceGet(t) \/ RaceSaveLoad(t) \/ RaceOpen(t) \/ RaceDump(t)

-----------------------------------------------------------------------------
(* bug_report: BugReportTool on the bugs table, as the tool loop calls it     *)
(* with permission_level, requesting_user and channel injected.               *)

MaxBugCalls == 3          \* bug_report calls in one run

BugLevels == {"owner", "admin", "normal", "ignored"}

Bug(id, reporter, status, priority) ==
    [id |-> id, reporter |-> reporter, status |-> status, priority |-> priority]

\* the arguments the model may send with a bug_report call
BugArgs ==
    LET Args(action, description, bug_id, status, priority, filter_status) ==
            [action |-> action, description |-> description, bug_id |-> bug_id,
             status |-> status, priority |-> priority, filter_status |-> filter_status]
    IN  {Args("report", d, None, None, None, "open") :
            d \in {None, Some("short"), Some("the bot is silent")}}
        \cup {Args("list", None, None, None, None, f) : f \in {"open", "all"}}
        \cup {Args("update", None, b, s, p, "open") :
                b \in {None, Some(1), Some(2)}, s \in {None, Some("wontfix")},
                p \in {None, Some("high")}}
        \cup {Args(a, None, b, None, None, "open") :
                a \in {"resolve", "delete"}, b \in {None, Some(1), Some(2)}}

\* len(description.strip()) < 10
TooShort(description) == description = "short"

BugOutcome(kind, rows, next_id, shown) ==
    [kind |-> kind, rows |-> rows, next_id |-> next_id, shown |-> shown]

Exists(rows, bug_id) == \E i \in DOMAIN rows : rows[i].id = bug_id

\* the SELECT of _list_bugs without the reporter condition
ListedUnfiltered(rows, requester, level, filter_status) ==
    {rows[i].id : i \in {j \in DOMAIN rows :
        filter_status = "all" \/ rows[j].status = filter_status}}

\* the SELECT of _list_bugs: the ids of the rows it returns (the LIMIT of 20,
\* or 10, is above the number of rows of the model)
Listed(rows, requester, level, filter_status) ==
    {rows[i].id : i \in {j \in DOMAIN rows :
        /\ level \in {"owner", "admin"} \/ rows[j].reporter = requester
        /\ filter_status = "all" \/ rows[j].status = filter_status}}

\* BugReportTool.execute with the injected level and requesting_user
BugExecute(rows, next_id, args, level, requesting_user) ==
    LET privileged == level \in {"owner", "admin"}
        same == BugOutcome("error", rows, next_id, {})
        denied == BugOutcome("denied", rows, next_id, {})
        id == IF args.bug_id = None THEN 0 ELSE args.bug_id[1]
        Rewrite(Change(_)) ==
            [i \in DOMAIN rows |-> IF rows[i].id = id THEN Change(rows[i]) ELSE rows[i]]
    IN  CASE args.action = "report" ->
               IF args.description = None \/ TooShort(args.description[1])
               THEN same
               ELSE BugOutcome("reported",
                               Append(rows, Bug(next_id, requesting_user, "open", "normal")),
                               next_id + 1, {})
          [] args.action = "list" ->
               LET shown == Listed(rows, requesting_user, level, args.filter_status)
               IN  BugOutcome(IF shown = {} THEN "none" ELSE "listed", rows, next_id, shown)
          [] args.action = "update" ->
               IF ~privileged THEN denied
               ELSE IF args.bug_id = None \/ ~Exists(rows, id) THEN same
               ELSE IF args.status = None /\ args.priority = None THEN same
               ELSE BugOutcome("updated",
                        Rewrite(LAMBDA b :
                            [b EXCEPT !.status = IF args.status = None THEN @
                                                 ELSE args.status[1],
                                      !.priority = IF args.priority = None THEN @
                                                   ELSE args.priority[1]]),
                        next_id, {})
          [] args.action = "resolve" ->
               IF ~privileged THEN denied
               ELSE IF args.bug_id = None \/ ~Exists(rows, id) THEN same
               ELSE BugOutcome("resolved",
                               Rewrite(LAMBDA b : [b EXCEPT !.status = "resolved"]),
                               next_id, {})
          [] args.action = "delete" ->
               IF ~privileged THEN denied
               ELSE IF args.bug_id = None \/ ~Exists(rows, id) THEN same
               ELSE BugOutcome("deleted", SelectSeq(rows, LAMBDA b : b.id # id), next_id, {})

BugCall(nick, level, action, kind, shown) ==
    [nick |-> nick, level |-> level, action |-> action, kind |-> kind, shown |-> shown]

IdleBugs ==
    /\ bug_rows = <<>>
    /\ bug_next_id = 1
    /\ bug_last = BugCall("", "", "", "", {})
    /\ bug_calls = 0

\* the table as _init_database creates it
InitBugs ==
    /\ bug_rows = <<>>
    /\ bug_next_id = 1
    /\ bug_last = BugCall("", "", "", "", {})
    /\ bug_calls = 0

\* the tool loop handles a bug_report call of a request by nick with level
BugReport ==
    /\ bug_calls < MaxBugCalls
    /\ \E nick \in {"alice", "bob"}, level \in BugLevels, args \in BugArgs :
         LET out == BugExecute(bug_rows, bug_next_id, args, level, nick)
         IN  /\ bug_rows' = out.rows
             /\ bug_next_id' = out.next_id
             /\ bug_last' = BugCall(nick, level, args.action, out.kind, out.shown)
    /\ bug_calls' = bug_calls + 1
    /\ UNCHANGED notBugs

NextBugs == BugReport

-----------------------------------------------------------------------------
(* Token usage of one request: usage_tracker.py and the accounting of the     *)
(* tool loop in client.py.  Only the provider's responses and their usage are *)
(* looked at here; the tool calls between them are in SpecLoop.  Prices are   *)
(* thousandths of a dollar per million tokens, so that costs are integers.    *)

MaxUsageTurns == 3         \* provider responses of the request

PRICING ==
    [model \in {"gpt-5.2", "default"} |->
        IF model = "gpt-5.2" THEN [input |-> 1750, cached |-> 175, output |-> 14000]
        ELSE [input |-> 2000, cached |-> 200, output |-> 10000]]

\* calculate_cost, times one million
calculate_cost(model, input_tokens, cached_tokens, output_tokens) ==
    LET pricing == PRICING[IF model \in DOMAIN PRICING THEN model ELSE "default"]
        uncached_tokens == input_tokens - cached_tokens
    IN  uncached_tokens * pricing.input + cached_tokens * pricing.cached
            + output_tokens * pricing.output

\* response.usage as the provider reports it: absent, or with any of its
\* attributes absent or None; cached tokens are part of the input tokens
Usage(input_tokens, details, output_tokens) ==
    [input_tokens |-> input_tokens, input_tokens_details |-> details,
     output_tokens |-> output_tokens]

UsageShapes ==
    {None,
     Some(Usage(None, None, None)),
     Some(Usage(Some(3), None, Some(1))),
     Some(Usage(Some(3), Some([cached_tokens |-> None]), Some(1))),
     Some(Usage(Some(3), Some([cached_tokens |-> Some(2)]), Some(1))),
     Some(Usage(Some(3), Some([cached_tokens |-> Some(3)]), Some(0))),
     Some(Usage(Some(0), Some([cached_tokens |-> Some(0)]), Some(0)))}

Tokens(input_tokens, cached_tokens, output_tokens) ==
    [input_tokens |-> input_tokens, cached_tokens |-> cached_tokens,
     output_tokens |-> output_tokens]

\* extract_usage_from_response taking the input tokens for the uncached part
extract_usage_uncached_input(resp_usage) ==
    IF resp_usage = None THEN Tokens(0, 0, 0)
    ELSE LET u == resp_usage[1]
             cached == IF u.input_tokens_details = None THEN 0
                       ELSE IF u.input_tokens_details[1].cached_tokens = None THEN 0
                       ELSE u.input_tokens_details[1].cached_tokens[1]
         IN  Tokens(IF u.input_tokens = None THEN 0 ELSE u.input_tokens[1] - cached,
                    cached,
                    IF u.output_tokens = None THEN 0 ELSE u.output_tokens[1])

\* extract_usage_from_response: what is absent or None counts as 0
extract_usage_from_response(resp_usage) ==
    IF resp_usage = None THEN Tokens(0, 0, 0)
    ELSE LET u == resp_usage[1]
         IN  Tokens(IF u.input_tokens = None THEN 0 ELSE u.input_tokens[1],
                    IF u.input_tokens_details = None THEN 0
                    ELSE IF u.input_tokens_details[1].cached_tokens = None THEN 0
                    ELSE u.input_tokens_details[1].cached_tokens[1],
                    IF u.output_tokens = None THEN 0 ELSE u.output_tokens[1])

\* the accounting of a response forgotten
AddTokensDropped(total, usage) == total

\* total_usage[...] += ..., for the three token counts
AddTokens(total, usage) ==
    Tokens(total.input_tokens + usage.input_tokens,
           total.cached_tokens + usage.cached_tokens,
           total.output_tokens + usage.output_tokens)

\* data/bot.db: it exists and takes the INSERT, it does not exist, or the
\* INSERT raises sqlite3.Error
DbStates == {"ok", "missing", "locked"}

\* log_usage: the row it inserts, if any
log_usage(rows, db, model, total) ==
    IF db = "missing" THEN rows
    ELSE LET cost == calculate_cost(model, total.input_tokens, total.cached_tokens,
                                    total.output_tokens)
         IN  IF db = "locked" THEN rows
             ELSE Append(rows, [model |-> model, input_tokens |-> total.input_tokens,
                                cached_tokens |-> total.cached_tokens,
                                output_tokens |-> total.output_tokens, cost |-> cost])

IdleUsage ==
    /\ u_pc = "done"
    /\ u_db = "ok"
    /\ u_total = Tokens(0, 0, 0)
    /\ u_reported = <<>>
    /\ u_rows = <<>>
    /\ u_events = <<>>

\* the first provider call of a request has been sent
InitUsage ==
    /\ u_pc = "first_call"
    /\ u_db \in DbStates
    /\ u_total = Tokens(0, 0, 0)
    /\ u_reported = <<>>
    /\ u_rows = <<>>
    /\ u_events = <<>>

\* a provider call returns, and the tool loop accounts for the response and
\* goes on to the follow-up call or leaves the loop; or the call raises and
\* the except branch of generate_response_with_context_stream yields the error
UsageReply ==
    /\ u_pc \in {"first_call", "next_call"}
    /\ \/ /\ u_events' = Append(u_events, [status |-> "error", message |-> GENERIC_ERROR,
                                           rows |-> Len(u_rows)])
          /\ u_pc' = "done"
          /\ UNCHANGED <<u_total, u_reported>>
       \/ \E resp_usage \in UsageShapes, calls \in BOOLEAN :
          /\ calls => Len(u_reported) + 1 < MaxUsageTurns
          /\ u_total' = AddTokens(u_total, extract_usage_from_response(resp_usage))
          /\ u_reported' = Append(u_reported, resp_usage)
          /\ u_pc' = IF calls THEN "next_call" ELSE "post_loop"
          /\ UNCHANGED u_events
    /\ UNCHANGED <<u_db, u_rows, notUsage>>

\* generate_response_with_context_stream after the tool loop: log_usage
UsageLog ==
    /\ u_pc = "post_loop"
    /\ u_rows' = log_usage(u_rows, u_db, "gpt-5.2", u_total)
    /\ u_pc' = "logged"
    /\ UNCHANGED <<u_db, u_total, u_reported, u_events, notUsage>>

\* and then the terminal event
UsageTerminal ==
    /\ u_pc = "logged"
    /\ \E null_triggered \in BOOLEAN, raw \in RawTexts :
         LET frames == TerminalFrames(null_triggered, clean_for_irc(extract_output(raw)))
         IN  u_events' = u_events \o
                [i \in DOMAIN frames |->
                    [status |-> frames[i].status, message |-> frames[i].message,
                     rows |-> Len(u_rows)]]
    /\ u_pc' = "done"
    /\ UNCHANGED <<u_db, u_total, u_reported, u_rows, notUsage>>

NextUsage ==
    \/ UsageReply
    \/ UsageLog
    \/ UsageTerminal

-----------------------------------------------------------------------------
(* The scheduler singleton: ReminderTool.__init__ and _start_scheduler, run   *)
(* by several threads.  _scheduler_started and _scheduler_lock are class      *)
(* attributes, one of each in the process.                                    *)

MaxConstructions == 4      \* ReminderTool() calls in a run

Constructors == 1..3       \* the threads that construct ReminderTool instances

\* entering the with block without waiting for the lock
LockFreeUnchecked(lock) == TRUE

\* with ReminderTool._scheduler_lock: the block is entered when the lock is free
LockFree(lock) == lock = 0

IdleSingleton ==
    /\ sg_pc = [t \in Constructors |-> "idle"]
    /\ sg_lock = 0
    /\ sg_started = FALSE
    /\ sg_threads = 0
    /\ sg_constructed = 0

\* the class as it is loaded
InitSingleton ==
    /\ sg_pc = [t \in Constructors |-> "idle"]
    /\ sg_lock = 0
    /\ sg_started = FALSE
    /\ sg_threads = 0
    /\ sg_constructed = 0

\* ReminderTool(): __init__ up to the call of _start_scheduler
Construct(t) ==
    /\ sg_pc[t] = "idle"
    /\ sg_constructed < MaxConstructions
    /\ sg_constructed' = sg_constructed + 1
    /\ sg_pc' = [sg_pc EXCEPT ![t] = "enter"]
    /\ UNCHANGED <<sg_lock, sg_started, sg_threads, notSingleton>>

\* _start_scheduler: the lock is taken
Acquire(t) ==
    /\ sg_pc[t] = "enter"
    /\ LockFree(sg_lock)
    /\ sg_lock' = t
    /\ sg_pc' = [sg_pc EXCEPT ![t] = "check"]
    /\ UNCHANGED <<sg_started, sg_threads, sg_constructed, notSingleton>>

\* the test of the flag; if it is set the method returns and the lock is
\* released
CheckStarted(t) ==
    /\ sg_pc[t] = "check"
    /\ IF sg_started
       THEN /\ sg_pc' = [sg_pc EXCEPT ![t] = "idle"]
            /\ sg_lock' = IF sg_lock = t THEN 0 ELSE sg_lock
       ELSE /\ sg_pc' = [sg_pc EXCEPT ![t] = "set"]
            /\ UNCHANGED sg_lock
    /\ UNCHANGED <<sg_started, sg_threads, sg_constructed, notSingleton>>

\* the flag is set and the with block left
SetStarted(t) ==
    /\ sg_pc[t] = "set"
    /\ sg_started' = TRUE
    /\ sg_lock' = IF sg_lock = t THEN 0 ELSE sg_lock
    /\ sg_pc' = [sg_pc EXCEPT ![t] = "start"]
    /\ UNCHANGED <<sg_threads, sg_constructed, notSingleton>>

\* threading.Thread(target=self._scheduler_loop, daemon=True).start()
StartThread(t) ==
    /\ sg_pc[t] = "start"
    /\ sg_threads' = sg_threads + 1
    /\ sg_pc' = [sg_pc EXCEPT ![t] = "idle"]
    /\ UNCHANGED <<sg_lock, sg_started, sg_constructed, notSingleton>>

NextSingleton ==
    \/ \E t \in Constructors : Construct(t)
    \/ \E t \in Constructors : Acquire(t)
    \/ \E t \in Constructors : CheckStarted(t)
    \/ \E t \in Constructors : SetStarted(t)
    \/ \E t \in Constructors : StartThread(t)

-----------------------------------------------------------------------------
(* A /mention/stream request whose HTTP consumer may go away: router.py,      *)
(* handle_mention_stream.  The generator of the AI client is taken as the     *)
(* events it yields; the usage row is written before the terminal event of a  *)
(* request whose tool loop finished.                                          *)

\* result_queue.put on a queue that holds one item at most
PutReadyBounded(q) == Len(q) < 1

\* result_queue.put returns at once: queue.Queue() has no maximum size
PutReady(q) == TRUE

IdleAbandon ==
    /\ ab_pc = "finished"
    /\ ab_events = <<>>
    /\ ab_queue = <<>>
    /\ ab_produced = <<>>
    /\ ab_written = <<>>
    /\ ab_consumer = "closed"
    /\ ab_usage = 0

\* generate_chunks has created the queue and started run_ai_generation
InitAbandon ==
    /\ ab_pc = "start"
    /\ ab_events = <<>>
    /\ ab_queue = <<>>
    /\ ab_produced = <<>>
    /\ ab_written = <<>>
    /\ ab_consumer = "reading"
    /\ ab_usage = 0

\* run_ai_generation: the client is obtained and the generator created, or
\* that raises and the except branch puts an error chunk and the sentinel
AbStart ==
    /\ ab_pc = "start"
    /\ \/ /\ \E events \in EventSequences : ab_events' = events
          /\ ab_pc' = "iterating"
          /\ UNCHANGED <<ab_queue, ab_produced>>
       \/ /\ PutReady(ab_queue)
          /\ ab_queue' = Put(ab_queue, <<Chunk("error", <<"Internal error">>), DoneSentinel>>)
          /\ ab_produced' = ab_produced \o <<Chunk("error", <<"Internal error">>), DoneSentinel>>
          /\ ab_pc' = "finished"
          /\ UNCHANGED ab_events
    /\ UNCHANGED <<ab_written, ab_consumer, ab_usage, notAbandon>>

\* the generator runs to its next event (writing the usage row on the way to
\* a success or null event) and run_ai_generation puts the event
AbPut ==
    /\ ab_pc = "iterating"
    /\ ab_events # <<>>
    /\ PutReady(ab_queue)
    /\ ab_usage' = ab_usage + B2N(Head(ab_events).status \in {"success", "null"})
    /\ ab_queue' = Put(ab_queue, <<Head(ab_events)>>)
    /\ ab_produced' = Append(ab_produced, Head(ab_events))
    /\ ab_events' = Tail(ab_events)
    /\ UNCHANGED <<ab_pc, ab_written, ab_consumer, notAbandon>>

\* the generator is exhausted: result_queue.put(("done", None))
AbDone ==
    /\ ab_pc = "iterating"
    /\ ab_events = <<>>
    /\ PutReady(ab_queue)
    /\ ab_queue' = Put(ab_queue, <<DoneSentinel>>)
    /\ ab_produced' = Append(ab_produced, DoneSentinel)
    /\ ab_pc' = "finished"
    /\ UNCHANGED <<ab_events, ab_written, ab_consumer, ab_usage, notAbandon>>

\* generate_chunks: one successful result_queue.get while the consumer reads
AbGet ==
    /\ ab_consumer = "reading"
    /\ ab_queue # <<>>
    /\ IF QueueGet(ab_queue).kind = "done"
       THEN ab_consumer' = "closed" /\ UNCHANGED ab_written
       ELSE ab_written' = Append(ab_written, QueueGet(ab_queue)) /\ UNCHANGED ab_consumer
    /\ ab_queue' = Tail(ab_queue)
    /\ UNCHANGED <<ab_pc, ab_events, ab_produced, ab_usage, notAbandon>>

\* the HTTP consumer goes away: generate_chunks is cancelled and reads no more
AbDisconnect ==
    /\ ab_consumer = "reading"
    /\ ab_consumer' = "gone"
    /\ UNCHANGED <<ab_pc, ab_events, ab_queue, ab_produced, ab_written, ab_usage, notAbandon>>

\* the steps of the orchestrator thread
AbOrchestrator ==
    \/ AbStart
    \/ AbPut
    \/ AbDone

NextAbandon ==
    \/ AbOrchestrator
    \/ AbGet
    \/ AbDisconnect

-----------------------------------------------------------------------------
(* The parameters of the provider calls of one request: client.py,            *)
(* generate_response_with_context_stream and the follow-up call of            *)
(* _handle_function_calls_stream.  The configuration is read from             *)
(* ai_settings.toml; any of the configurations below may be in force.         *)

MaxParamCalls == 3         \* provider calls of the request

Configs ==
    [reasoning_effort : {"low", "medium", "high"},
     max_output_tokens : {4000, 16000},
     timeout : {240, 480}]

\* the overrides of the first call
FirstCallParams(deep, config) ==
    [reasoning_effort |-> IF deep THEN "high" ELSE config.reasoning_effort,
     max_output_tokens |-> IF deep THEN 16000 ELSE config.max_output_tokens,
     timeout |-> IF deep THEN 480 ELSE config.timeout]

\* the follow-up call takes all three from self.config
FollowUpParams(deep, config) ==
    [reasoning_effort |-> config.reasoning_effort,
     max_output_tokens |-> config.max_output_tokens,
     timeout |-> config.timeout]

IdleParams ==
    /\ pr_pc = "done"
    /\ pr_deep = FALSE
    /\ pr_config = [reasoning_effort |-> "medium", max_output_tokens |-> 4000,
                    timeout |-> 240]
    /\ pr_calls = <<>>

\* a request arrives, with or without deep_mode
InitParams ==
    /\ pr_pc = "start"
    /\ pr_deep \in BOOLEAN
    /\ pr_config \in Configs
    /\ pr_calls = <<>>

\* generate_response_with_context_stream: the first responses.create
ParamsFirstCall ==
    /\ pr_pc = "start"
    /\ pr_calls' = <<FirstCallParams(pr_deep, pr_config)>>
    /\ pr_pc' = "loop"
    /\ UNCHANGED <<pr_deep, pr_config, notParams>>

\* _handle_function_calls_stream: the responses.create at the end of a turn
ParamsFollowUp ==
    /\ pr_pc = "loop"
    /\ Len(pr_calls) < MaxParamCalls
    /\ pr_calls' = Append(pr_calls, FollowUpParams(pr_deep, pr_config))
    /\ UNCHANGED <<pr_pc, pr_deep, pr_config, notParams>>

\* a response without function calls ends the loop
ParamsFinish ==
    /\ pr_pc = "loop"
    /\ pr_pc' = "done"
    /\ UNCHANGED <<pr_deep, pr_config, pr_calls, notParams>>

NextParams ==
    \/ ParamsFirstCall
    \/ ParamsFollowUp
    \/ ParamsFinish

-----------------------------------------------------------------------------
(* Cancelling: _cancel_reminder, called by the reminder tool in the thread of *)
(* a request, while the scheduler thread delivers and users join.  The SELECT *)
(* and the UPDATE of a cancel are two statements; the scheduler and the join  *)
(* check work on the copies of the rows they selected.                        *)

MaxCancels == 2            \* cancel calls in a run
MaxCancelTicks == 2        \* ticks of the scheduler in such a run
MaxCancelJoins == 1        \* join-check calls in such a run

\* the tables such a run starts from: a one-shot reminder, due, one offline
\* attempt away from failing or not; a recurring one; a join reminder
CancelRows ==
    {Row("alice", "alice", "time", 0, ""),
     [Row("bob", "alice", "time", 0, "") EXCEPT !.delivery_attempts = MAX_ATTEMPTS - 1],
     Row("bob", "alice", "time", 0, "hourly"),
     Row("bob", "alice", "join", 0, "")}

CancelStores == {<<r>> : r \in CancelRows}

\* the calls: an id of the table or one past it, by the target, by a stranger,
\* by an admin
CancelArgs ==
    [reminder_id : 1..2, nick : {"Alice", "carol"}, permission_level : {"normal", "admin"}]

TERMINAL == {"delivered", "cancelled", "failed"}

\* _cancel_reminder up to the UPDATE: what it returns early, "" if it goes on
CancelCheck(rows, a) ==
    IF a.reminder_id \notin DOMAIN rows THEN "not found"
    ELSE IF rows[a.reminder_id].status # "pending" THEN "already"
    ELSE IF /\ a.permission_level \notin {"owner", "admin"}
            /\ Lower(rows[a.reminder_id].creator_nick) # Lower(a.nick)
            /\ Lower(rows[a.reminder_id].target_nick) # Lower(a.nick)
         THEN "Permission denied"
    ELSE ""

IdleCancel ==
    /\ cn_pc = "idle"
    /\ cn_args = [reminder_id |-> 0, nick |-> "", permission_level |-> ""]
    /\ cn_result = ""
    /\ cancels = 0

InitCancel ==
    /\ reminders \in CancelStores
    /\ IdleScheduler
    /\ IdleCreate
    /\ j_pc = [p \in Threads |-> "idle"]
    /\ j_args = [p \in Threads |-> [nick |-> "", channel |-> ""]]
    /\ j_sel = [p \in Threads |-> <<>>]
    /\ j_out = [p \in Threads |-> <<>>]
    /\ j_returned = PerId(reminders, 0)
    /\ joins = 0
    /\ IdleCancel

\* _cancel_reminder: the SELECT, fetchone and the checks on the fetched row
CancelSelect ==
    /\ cn_pc = "idle"
    /\ cancels < MaxCancels
    /\ cancels' = cancels + 1
    /\ \E a \in CancelArgs :
        /\ cn_args' = a
        /\ cn_result' = CancelCheck(reminders, a)
        /\ cn_pc' = IF CancelCheck(reminders, a) = "" THEN "update" ELSE "idle"
    /\ UNCHANGED <<reminders, schedVars, createVars, joinVars, sharedVars, notCancel>>

\* _cancel_reminder: the UPDATE, which names the id alone, and the commit
CancelUpdate ==
    /\ cn_pc = "update"
    /\ reminders' = [reminders EXCEPT ![cn_args.reminder_id].status = "cancelled"]
    /\ cn_result' = "cancelled"
    /\ cn_pc' = "idle"
    /\ UNCHANGED <<cn_args, cancels, schedVars, createVars, joinVars, sharedVars, notCancel>>

CancelTick == ticks < MaxCancelTicks /\ ProcessDue

CancelJoin == joins < MaxCancelJoins /\ JoinSelect(1)

NextCancel ==
    \/ CancelSelect
    \/ CancelUpdate
    \/ CancelTick
    \/ AttemptDelivery
    \/ SchedulerSleep
    \/ CancelJoin
    \/ JoinDeliver(1)

-----------------------------------------------------------------------------
(* The deep_mode field of a mention request: router.py, MentionRequest and    *)
(* the two endpoints, and mention.py, handle_mention.  The body is the JSON   *)
(* object the caller posts; the request is the MentionRequest made of it.     *)

MentionRequestFields ==
    {"request_id", "nick", "hostmask", "channel", "message", "permission_level", "history"}

\* the bodies: the required fields, a permission level, deep_mode or not
Bodies ==
    LET plain == [request_id : {"r1"}, nick : Nicks, channel : {"#x"}, message : {"hi"},
                  permission_level : {"owner", "admin", "normal", "ignored"}]
    IN  plain \cup
        [request_id : {"r1"}, nick : Nicks, channel : {"#x"}, message : {"hi"},
         permission_level : {"owner", "admin", "normal", "ignored"}, deep_mode : BOOLEAN]

\* the value of a field the body leaves out
FieldDefault(f) == IF f = "permission_level" THEN Some("normal") ELSE None

\* MentionRequest(**body): the declared fields, each from the body or from its
\* default; a key that is no field of the model is dropped
ParseMentionRequest(body) ==
    [f \in MentionRequestFields |->
        IF f \in DOMAIN body THEN Some(body[f]) ELSE FieldDefault(f)]

\* what the orchestrator does with its deep_mode argument
Orchestrate(deep) ==
    [deep_mode |-> deep,
     quota_gate |-> deep,
     max_iterations |-> IF deep THEN MAX_TOOL_ITERATIONS_DEEP
                        ELSE MAX_TOOL_ITERATIONS_NORMAL,
     usage_recorded |-> deep]

IdleField ==
    /\ df_pc = "done"
    /\ df_endpoint = ""
    /\ df_body = [request_id |-> "", nick |-> "", channel |-> "", message |-> "",
                  permission_level |-> ""]
    /\ df_request = None
    /\ df_run = None
    /\ df_reply = ""

InitField ==
    /\ df_pc = "received"
    /\ df_endpoint \in {"/mention", "/mention/stream"}
    /\ df_body \in Bodies
    /\ df_request = None
    /\ df_run = None
    /\ df_reply = ""

\* the framework builds the MentionRequest of the handler from the body
FieldParse ==
    /\ df_pc = "received"
    /\ df_request' = Some(ParseMentionRequest(df_body))
    /\ df_pc' = "handling"
    /\ UNCHANGED <<df_endpoint, df_body, df_run, df_reply, notField>>

\* POST /mention: mention.handle_mention reads request.deep_mode for its log
\* line before the try; the router answers an exception with an error reply
FieldHandleMention ==
    /\ df_pc = "handling"
    /\ df_endpoint = "/mention"
    /\ IF "deep_mode" \in DOMAIN df_request[1]
       THEN /\ df_run' = Some(Orchestrate(df_request[1]["deep_mode"][1]))
            /\ df_reply' = "success"
       ELSE /\ df_run' = None
            /\ df_reply' = "error"
    /\ df_pc' = "done"
    /\ UNCHANGED <<df_endpoint, df_body, df_request, notField>>

\* POST /mention/stream: run_ai_generation calls the generator without a
\* deep_mode argument, whose default is False
FieldHandleStream ==
    /\ df_pc = "handling"
    /\ df_endpoint = "/mention/stream"
    /\ df_run' = Some(Orchestrate(FALSE))
    /\ df_reply' = "success"
    /\ df_pc' = "done"
    /\ UNCHANGED <<df_endpoint, df_body, df_request, notField>>

NextField ==
    \/ FieldParse
    \/ FieldHandleMention
    \/ FieldHandleStream

-----------------------------------------------------------------------------
(* The background migration: scripts/migrate_to_chroma.py, migrate, run by    *)
(* chroma_scheduler of main.py again and again.  A message's id is its place  *)
(* in the messages table; the collection holds "msg_<id>" documents.          *)

MaxMessages == 4           \* messages the table comes to hold
MaxBatch == 2              \* batch_size of the runs
MaxBatchFailures == 1      \* batches whose embedding or insert fails

RECURSIVE MaxOf(_)
MaxOf(ids) ==
    IF ids = {} THEN 0
    ELSE LET x == CHOOSE y \in ids : TRUE
             m == MaxOf(ids \ {x})
         IN  IF x > m THEN x ELSE m

\* last_id: the largest id of the collection, 0 for an empty one
LastId(index) == MaxOf({index[k] : k \in DOMAIN index})

\* the rows of the query: non-empty content, id > last_id, in the order of the ids
NewRows(messages, last_id) ==
    LET ids == {i \in DOMAIN messages : messages[i] # "" /\ i > last_id}
    IN  Ascending(ids)

TakeBatch(rows, n) == SubSeq(rows, 1, IF Len(rows) < n THEN Len(rows) ELSE n)
DropBatch(rows, n) == SubSeq(rows, (IF Len(rows) < n THEN Len(rows) ELSE n) + 1, Len(rows))

IdleMigrate ==
    /\ mg_pc = "sleep"
    /\ mg_messages = <<>>
    /\ mg_index = <<>>
    /\ mg_rows = <<>>
    /\ mg_failures = 0

InitMigrate ==
    /\ mg_pc = "sleep"
    /\ mg_messages = <<>>
    /\ mg_index = <<>>
    /\ mg_rows = <<>>
    /\ mg_failures = 0

\* the bot stores a message, with or without content
MessageStored ==
    /\ Len(mg_messages) < MaxMessages
    /\ \E content \in {"", "tea"} : mg_messages' = Append(mg_messages, content)
    /\ UNCHANGED <<mg_pc, mg_index, mg_rows, mg_failures, notMigrate>>

\* migrate up to the batch loop: last_id and the query; no rows, no run
MigrateStart ==
    /\ mg_pc = "sleep"
    /\ mg_rows' = NewRows(mg_messages, LastId(mg_index))
    /\ mg_pc' = IF NewRows(mg_messages, LastId(mg_index)) = <<>> THEN "sleep" ELSE "batch"
    /\ UNCHANGED <<mg_messages, mg_index, mg_failures, notMigrate>>

\* one round of the batch loop: the batch is embedded and added, or the
\* exception is caught and the loop continues with the next batch
MigrateBatch ==
    /\ mg_pc = "batch"
    /\ \/ /\ mg_index' = mg_index \o TakeBatch(mg_rows, MaxBatch)
          /\ UNCHANGED mg_failures
       \/ /\ mg_failures < MaxBatchFailures
          /\ mg_failures' = mg_failures + 1
          /\ UNCHANGED mg_index
    /\ mg_rows' = DropBatch(mg_rows, MaxBatch)
    /\ mg_pc' = IF DropBatch(mg_rows, MaxBatch) = <<>> THEN "sleep" ELSE "batch"
    /\ UNCHANGED <<mg_messages, notMigrate>>

NextMigrate ==
    \/ MessageStored
    \/ MigrateStart
    \/ MigrateBatch

-----------------------------------------------------------------------------
(* Specifications *)

\* the state outside the request models that a specification does not use
IdleExt == IdleRemind /\ IdleCite /\ IdleKB /\ IdleHistory /\ IdlePrompt /\ IdleMention
    /\ IdleMigrate
    /\ IdleField
    /\ IdleCancel
    /\ IdleParams
    /\ IdleAbandon
    /\ IdleSingleton
    /\ IdleUsage
    /\ IdleBugs
    /\ IdleRace
    /\ IdleRules
    /\ IdleGate
    /\ IdleBlocking

\* a /mention/stream request arrives; no other request thread is active
InitStream == InitLoop /\ InitImage /\ InitDeep /\ InitShared /\ IdleExt

\* the request threads are idle and no /mention/stream request is in progress
InitThreads ==
    InitLoop /\ deep_mode = FALSE /\ InitImage /\ InitDeep /\ InitShared /\ IdleExt

SpecLoop == InitStream /\ [][NextLoop]_vars

SpecImage == InitThreads /\ [][NextImage]_vars

SpecDeep == InitThreads /\ [][NextDeep]_vars

\* the scheduler starts on a table left by earlier runs
InitScheduler ==
    InitLoop /\ deep_mode = FALSE /\ InitImage /\ InitDeep /\ InitShared /\ InitRemind /\ IdleCite /\ IdleKB /\ IdleHistory /\ IdlePrompt /\ IdleMention /\ IdleBlocking /\ IdleGate /\ IdleRules /\ IdleRace /\ IdleBugs /\ IdleUsage /\ IdleSingleton /\ IdleAbandon /\ IdleParams /\ IdleCancel /\ IdleField /\ IdleMigrate

SpecRemind == InitScheduler /\ [][NextRemind]_vars

\* requests create reminders on a table left by earlier requests
InitCreating ==
    InitLoop /\ deep_mode = FALSE /\ InitImage /\ InitDeep /\ InitShared /\ InitCreate /\ IdleCite /\ IdleKB /\ IdleHistory /\ IdlePrompt /\ IdleMention /\ IdleBlocking /\ IdleGate /\ IdleRules /\ IdleRace /\ IdleBugs /\ IdleUsage /\ IdleSingleton /\ IdleAbandon /\ IdleParams /\ IdleCancel /\ IdleField /\ IdleMigrate

SpecCreate == InitCreating /\ [][NextCreate]_vars

\* users join channels while the table holds join reminders
InitJoining ==
    InitLoop /\ deep_mode = FALSE /\ InitImage /\ InitDeep /\ InitShared /\ InitJoin /\ IdleCite /\ IdleKB /\ IdleHistory /\ IdlePrompt /\ IdleMention /\ IdleBlocking /\ IdleGate /\ IdleRules /\ IdleRace /\ IdleBugs /\ IdleUsage /\ IdleSingleton /\ IdleAbandon /\ IdleParams /\ IdleCancel /\ IdleField /\ IdleMigrate

SpecJoin == InitJoining /\ [][NextJoin]_vars

\* the scheduler and the join checks run on reminders created long ago
InitExpiring ==
    InitLoop /\ deep_mode = FALSE /\ InitImage /\ InitDeep /\ InitShared /\ InitExpiry /\ IdleCite /\ IdleKB /\ IdleHistory /\ IdlePrompt /\ IdleMention /\ IdleBlocking /\ IdleGate /\ IdleRules /\ IdleRace /\ IdleBugs /\ IdleUsage /\ IdleSingleton /\ IdleAbandon /\ IdleParams /\ IdleCancel /\ IdleField /\ IdleMigrate

SpecExpiry == InitExpiring /\ [][NextExpiry]_vars

\* one request whose responses carry citations
InitCiting ==
    InitLoop /\ deep_mode = FALSE /\ InitImage /\ InitDeep /\ InitShared /\ IdleRemind
    /\ InitCite /\ IdleKB /\ IdleHistory /\ IdlePrompt /\ IdleMention /\ IdleBlocking /\ IdleGate /\ IdleRules /\ IdleRace /\ IdleBugs /\ IdleUsage /\ IdleSingleton /\ IdleAbandon /\ IdleParams /\ IdleCancel /\ IdleField /\ IdleMigrate

SpecCite == InitCiting /\ [][NextCite]_vars

\* learn and forget calls on an empty collection
InitLearning ==
    InitLoop /\ deep_mode = FALSE /\ InitImage /\ InitDeep /\ InitShared /\ IdleRemind
    /\ IdleCite /\ InitKB /\ IdleHistory /\ IdlePrompt /\ IdleMention /\ IdleBlocking /\ IdleGate /\ IdleRules /\ IdleRace /\ IdleBugs /\ IdleUsage /\ IdleSingleton /\ IdleAbandon /\ IdleParams /\ IdleCancel /\ IdleField /\ IdleMigrate

SpecKB == InitLearning /\ [][NextKB]_vars

\* the provider calls query_chat_history in the course of a request
InitQuerying ==
    InitLoop /\ deep_mode = FALSE /\ InitImage /\ InitDeep /\ InitShared /\ IdleRemind
    /\ IdleCite /\ IdleKB /\ InitHistory /\ IdlePrompt /\ IdleMention /\ IdleBlocking /\ IdleGate /\ IdleRules /\ IdleRace /\ IdleBugs /\ IdleUsage /\ IdleSingleton /\ IdleAbandon /\ IdleParams /\ IdleCancel /\ IdleField /\ IdleMigrate

SpecHistory == InitQuerying /\ [][NextHistory]_vars

\* two requests under one configuration
InitPrompting ==
    InitLoop /\ deep_mode = FALSE /\ InitImage /\ InitDeep /\ InitShared /\ IdleRemind
    /\ IdleCite /\ IdleKB /\ IdleHistory /\ InitPrompt /\ IdleMention /\ IdleBlocking /\ IdleGate /\ IdleRules /\ IdleRace /\ IdleBugs /\ IdleUsage /\ IdleSingleton /\ IdleAbandon /\ IdleParams /\ IdleCancel /\ IdleField /\ IdleMigrate

SpecPrompt == InitPrompting /\ [][NextPrompt]_vars

\* a mention request arrives at one of the two endpoints
InitMentioned ==
    InitLoop /\ deep_mode = FALSE /\ InitImage /\ InitDeep /\ InitShared /\ IdleRemind
    /\ IdleCite /\ IdleKB /\ IdleHistory /\ IdlePrompt /\ InitMention /\ IdleBlocking /\ IdleGate /\ IdleRules /\ IdleRace /\ IdleBugs /\ IdleUsage /\ IdleSingleton /\ IdleAbandon /\ IdleParams /\ IdleCancel /\ IdleField /\ IdleMigrate

SpecMention == InitMentioned /\ [][NextMention]_vars

\* a request arrives on the blocking path
InitBlocked ==
    InitLoop /\ deep_mode = FALSE /\ InitImage /\ InitDeep /\ InitShared /\ IdleRemind
    /\ IdleCite /\ IdleKB /\ IdleHistory /\ IdlePrompt /\ IdleMention
    /\ InitBlocking /\ IdleGate /\ IdleRules /\ IdleRace /\ IdleBugs /\ IdleUsage /\ IdleSingleton /\ IdleAbandon /\ IdleParams /\ IdleCancel /\ IdleField /\ IdleMigrate

SpecBlocking == InitBlocked /\ [][NextBlocking]_vars

\* a request whose responses call execute_shell and irc_command
InitGated ==
    InitLoop /\ deep_mode = FALSE /\ InitImage /\ InitDeep /\ InitShared /\ IdleRemind
    /\ IdleCite /\ IdleKB /\ IdleHistory /\ IdlePrompt /\ IdleMention /\ IdleBlocking
    /\ InitGate /\ IdleRules /\ IdleRace /\ IdleBugs /\ IdleUsage /\ IdleSingleton /\ IdleAbandon /\ IdleParams /\ IdleCancel /\ IdleField /\ IdleMigrate

SpecGate == InitGated /\ [][NextGate]_vars

\* requests call manage_user_rules on a new rules file
InitRuling ==
    InitLoop /\ deep_mode = FALSE /\ InitImage /\ InitDeep /\ InitShared /\ IdleRemind
    /\ IdleCite /\ IdleKB /\ IdleHistory /\ IdlePrompt /\ IdleMention /\ IdleBlocking /\ IdleGate
    /\ InitRules /\ IdleRace /\ IdleBugs /\ IdleUsage /\ IdleSingleton /\ IdleAbandon /\ IdleParams /\ IdleCancel /\ IdleField /\ IdleMigrate

SpecRules == InitRuling /\ [][NextRules]_vars

\* two requests call manage_user_rules at the same time
InitRacing ==
    InitLoop /\ deep_mode = FALSE /\ InitImage /\ InitDeep /\ InitShared /\ IdleRemind
    /\ IdleCite /\ IdleKB /\ IdleHistory /\ IdlePrompt /\ IdleMention /\ IdleBlocking /\ IdleGate /\ IdleRules
    /\ InitRace /\ IdleBugs /\ IdleUsage /\ IdleSingleton /\ IdleAbandon /\ IdleParams /\ IdleCancel /\ IdleField /\ IdleMigrate

SpecRace == InitRacing /\ [][NextRace]_vars

\* requests call bug_report on a new table
InitBugged ==
    InitLoop /\ deep_mode = FALSE /\ InitImage /\ InitDeep /\ InitShared /\ IdleRemind
    /\ IdleCite /\ IdleKB /\ IdleHistory /\ IdlePrompt /\ IdleMention /\ IdleBlocking /\ IdleGate /\ IdleRules /\ IdleRace
    /\ InitBugs /\ IdleUsage /\ IdleSingleton /\ IdleAbandon /\ IdleParams /\ IdleCancel /\ IdleField /\ IdleMigrate

SpecBugs == InitBugged /\ [][NextBugs]_vars

\* a request whose first provider call is on its way
InitAccounting ==
    InitLoop /\ deep_mode = FALSE /\ InitImage /\ InitDeep /\ InitShared /\ IdleRemind
    /\ IdleCite /\ IdleKB /\ IdleHistory /\ IdlePrompt /\ IdleMention /\ IdleBlocking /\ IdleGate /\ IdleRules /\ IdleRace /\ IdleBugs
    /\ InitUsage /\ IdleSingleton /\ IdleAbandon /\ IdleParams /\ IdleCancel /\ IdleField /\ IdleMigrate

SpecUsage == InitAccounting /\ [][NextUsage]_vars

\* threads construct ReminderTool instances
InitConstructing ==
    InitLoop /\ deep_mode = FALSE /\ InitImage /\ InitDeep /\ InitShared /\ IdleRemind
    /\ IdleCite /\ IdleKB /\ IdleHistory /\ IdlePrompt /\ IdleMention /\ IdleBlocking /\ IdleGate /\ IdleRules /\ IdleRace /\ IdleBugs /\ IdleUsage
    /\ InitSingleton /\ IdleAbandon /\ IdleParams /\ IdleCancel /\ IdleField /\ IdleMigrate

SpecSingleton == InitConstructing /\ [][NextSingleton]_vars

\* a stream request whose orchestrator thread has just been started
InitAbandoned ==
    InitLoop /\ deep_mode = FALSE /\ InitImage /\ InitDeep /\ InitShared /\ IdleRemind
    /\ IdleCite /\ IdleKB /\ IdleHistory /\ IdlePrompt /\ IdleMention /\ IdleBlocking /\ IdleGate /\ IdleRules /\ IdleRace /\ IdleBugs /\ IdleUsage /\ IdleSingleton
    /\ InitAbandon /\ IdleParams /\ IdleCancel /\ IdleField /\ IdleMigrate

SpecAbandonSafe == InitAbandoned /\ [][NextAbandon]_vars

\* the orchestrator thread is scheduled as long as it can take a step; nothing
\* is assumed of the responder and of the consumer
SpecAbandon == InitAbandoned /\ [][NextAbandon]_vars /\ WF_vars(AbOrchestrator)

\* a request arrives under some configuration
InitCalling ==
    InitLoop /\ deep_mode = FALSE /\ InitImage /\ InitDeep /\ InitShared /\ IdleRemind
    /\ IdleCite /\ IdleKB /\ IdleHistory /\ IdlePrompt /\ IdleMention /\ IdleBlocking /\ IdleGate /\ IdleRules /\ IdleRace /\ IdleBugs /\ IdleUsage /\ IdleSingleton /\ IdleAbandon
    /\ InitParams /\ IdleCancel /\ IdleField /\ IdleMigrate

SpecParams == InitCalling /\ [][NextParams]_vars

\* requests cancel reminders while the scheduler runs and users join
InitCancelling ==
    InitLoop /\ deep_mode = FALSE /\ InitImage /\ InitDeep /\ InitShared
    /\ IdleCite /\ IdleKB /\ IdleHistory /\ IdlePrompt /\ IdleMention /\ IdleBlocking /\ IdleGate /\ IdleRules /\ IdleRace /\ IdleBugs /\ IdleUsage /\ IdleSingleton /\ IdleAbandon /\ IdleParams
    /\ InitCancel /\ IdleField /\ IdleMigrate

SpecCancel == InitCancelling /\ [][NextCancel]_vars

\* a mention request is posted to one of the two endpoints
InitPosting ==
    InitLoop /\ deep_mode = FALSE /\ InitImage /\ InitDeep /\ InitShared /\ IdleRemind
    /\ IdleCite /\ IdleKB /\ IdleHistory /\ IdlePrompt /\ IdleMention /\ IdleBlocking /\ IdleGate /\ IdleRules /\ IdleRace /\ IdleBugs /\ IdleUsage /\ IdleSingleton /\ IdleAbandon /\ IdleParams /\ IdleCancel
    /\ InitField /\ IdleMigrate

SpecField == InitPosting /\ [][NextField]_vars

\* the scheduler runs the migration while messages are stored
InitMigrating ==
    InitLoop /\ deep_mode = FALSE /\ InitImage /\ InitDeep /\ InitShared /\ IdleRemind
    /\ IdleCite /\ IdleKB /\ IdleHistory /\ IdlePrompt /\ IdleMention /\ IdleBlocking /\ IdleGate /\ IdleRules /\ IdleRace /\ IdleBugs /\ IdleUsage /\ IdleSingleton /\ IdleAbandon /\ IdleParams /\ IdleCancel /\ IdleField
    /\ InitMigrate

\* chroma_scheduler runs migrate every CHROMA_MIGRATE_INTERVAL, for ever, and a
\* run goes through its batches
SpecMigrate ==
    InitMigrating /\ [][NextMigrate]_vars
        /\ WF_vars(MigrateStart) /\ WF_vars(MigrateBatch) /\ WF_vars(MessageStored)

-----------------------------------------------------------------------------
(* Properties of the tool loop and of the stream (SpecLoop) *)

\* C1: whatever the provider returns, the tool loop runs at most 18 iterations
\* (30 in deep mode), so sends at most that many follow-up provider calls, and
\* a loop that was left has yielded exactly one final_result, a loop that was
\* not left none.
C1_LoopBounded ==
    LET cap == IF deep_mode THEN MAX_TOOL_ITERATIONS_DEEP ELSE MAX_TOOL_ITERATIONS_NORMAL
        left == \/ pc = "post_loop"
                \/ pc \in {"gen_done", "finished"} /\ usage_log # <<>>
    IN  /\ iteration <= cap
        /\ followups <= cap
        /\ final_results = IF left THEN 1 ELSE 0

\* the cap of deep mode is reached by a provider that keeps returning calls
C1_CapReached ==
    /\ deep_mode
    /\ iteration = MAX_TOOL_ITERATIONS_DEEP
    /\ followups = MAX_TOOL_ITERATIONS_DEEP
    /\ final_results = 1
    /\ SelectSeq(response.output, IsFunctionCall) # <<>>

\* C2: once a tool call of the request returned exactly the null marker, the
\* terminal event of the request has status "null" and an empty message,
\* whatever happens afterwards.
C2_NullTerminal ==
    \A i \in DOMAIN produced :
        (/\ produced[i].kind = "chunk"
         /\ produced[i].status \in {"success", "null", "error"}
         /\ null_response_triggered)
            => produced[i] = Chunk("null", <<>>)

\* C3: the frames written to the client are the frames the orchestrator
\* produced, in their order; every frame before the last is a processing frame;
\* a terminal frame is the last frame produced; the responder stops only after
\* the done sentinel, and then exactly one terminal frame was written, last.
C3_FrameSequence ==
    LET frames == SelectSeq(produced, LAMBDA m : m.kind = "chunk")
        terminal(f) == f.status \in {"success", "null", "error"}
    IN  /\ Len(written) <= Len(frames)
        /\ \A i \in DOMAIN written :
            /\ written[i] = frames[i]
            /\ \/ written[i].status = "processing"
               \/ terminal(written[i]) /\ i = Len(frames)
                    /\ pc \in {"gen_done", "finished"}
        /\ responder_done =>
            /\ pc = "finished"
            /\ result_queue = <<>>
            /\ produced[Len(produced)] = DoneSentinel
            /\ written = frames
            /\ written # <<>>
            /\ terminal(written[Len(written)])

\* a stream of two different processing frames and a success frame
C3_ThreeFrames ==
    /\ responder_done
    /\ Len(written) = 3
    /\ written[1].status = "processing"
    /\ written[2].status = "processing"
    /\ written[1] # written[2]
    /\ written[3].status = "success"

\* C4: every report_status call whose result is the marker followed by msg
\* gives exactly one processing frame carrying msg, before the terminal frame,
\* and the output fed back for it is not the marker string.
C4_StatusFrame ==
    LET shown == SelectSeq(produced, LAMBDA m : m.kind = "chunk" /\ m.status = "processing")
    IN  /\ Len(shown) = Len(reported)
        /\ \A i \in DOMAIN shown : shown[i].message = reported[i]
        /\ \A i \in DOMAIN produced :
            (produced[i].kind = "chunk" /\ produced[i].status = "processing")
                => \A j \in 1..(i - 1) : produced[j].status = "processing"
        /\ \A i \in DOMAIN function_outputs :
            ~startswith(function_outputs[i].output, STATUS_UPDATE_MARKER)

\* C5: the counts passed to log_usage are the totals of function_call,
\* web_search_call and code_interpreter_call items over all responses of the
\* request, the first and the last included.
C5_UsageTotals ==
    /\ Len(usage_log) <= 1
    /\ \A i \in DOMAIN usage_log :
        /\ usage_log[i].tool_calls = seen.fc
        /\ usage_log[i].web_search_calls = seen.web
        /\ usage_log[i].code_interpreter_calls = seen.code

\* usage is logged for a request that hit the cap with calls left unexecuted
C5_CapWithCalls ==
    /\ usage_log # <<>>
    /\ ~deep_mode
    /\ iteration = MAX_TOOL_ITERATIONS_NORMAL
    /\ SelectSeq(response.output, IsFunctionCall) # <<>>
    /\ usage_log[1].tool_calls > MAX_TOOL_ITERATIONS_NORMAL
    /\ usage_log[1].web_search_calls >= 1

-----------------------------------------------------------------------------
(* Properties of the image rate limit (SpecImage) *)

\* C6: the successful image generations of normal users within the 3600
\* seconds ending now are never more than 3.
C6_HourlyQuota ==
    Len(InWindow(normal_successes, now, WINDOW_SECONDS)) <= MAX_IMAGES_PER_HOUR

\* C7: for owner and admin the check allows in every state of the shared
\* window, and the output of an image tool call of an owner or admin request
\* is never the rate-limit message.
C7_PrivilegedAllowed ==
    /\ \A level \in {"owner", "admin"} :
        check_image_rate_limit(level, image_timestamps, now).allowed
    /\ img_reply.level \in {"owner", "admin"} => img_reply.output # RATE_LIMIT_MSG

\* an admin generation succeeded although 3 generations were in the window
C7_AdminOverQuota ==
    /\ img_reply = [level |-> "admin", output |-> <<"https://image">>]
    /\ Len(InWindow(image_timestamps, now, WINDOW_SECONDS)) > MAX_IMAGES_PER_HOUR
    /\ image_timestamps[Len(image_timestamps)] = now

-----------------------------------------------------------------------------
(* Properties of the deep-mode limit (SpecDeep) *)

C9_LedgerUnchangedOtherwise ==
    [][/\ \A p \in DeepThreads :
            (d_pc[p] = "running" /\ d_pc'[p] = "idle") =>
                LET r == d_req[p]
                    terminal == d_reply'.events[Len(d_reply'.events)]
                IN  IF r.deep /\ r.level = "normal" /\ terminal.status = "success"
                    THEN deep_usage' = [deep_usage EXCEPT ![r.nick] = Append(@, now)]
                    ELSE deep_usage' = deep_usage /\ d_dropped[p] = 0
       /\ \A p \in DeepThreads :
            (d_pc[p] = "idle" /\ d_pc'[p] = "running"
                /\ d_req'[p].level \in {"owner", "admin"}) => deep_usage' = deep_usage
       /\ (d_pc' = d_pc /\ now' = now) => deep_usage' = deep_usage]_vars

\* C9: the end of a deep request of a normal nick appends exactly one timestamp
\* to the nick's ledger when its terminal event is success; the end of any
\* other request leaves the ledger as it was; the gate of a deep request of a
\* normal nick only drops that nick's entries older than 24 hours; owner and
\* admin requests and requests without deep mode never change the ledger.
C9_LedgerEffect ==
    [][/\ \A p \in DeepThreads :
            (d_pc[p] = "running" /\ d_pc'[p] = "idle") =>
                LET r == d_req[p]
                    terminal == d_reply'.events[Len(d_reply'.events)]
                IN  IF r.deep /\ r.level = "normal" /\ terminal.status = "success"
                    THEN deep_usage' = [deep_usage EXCEPT ![r.nick] = Append(@, now)]
                    ELSE deep_usage' = deep_usage
       /\ \A p \in DeepThreads :
            (d_pc[p] = "idle" /\ d_pc'[p] = "running") =>
                LET r == d_req'[p]
                IN  IF r.deep /\ r.level = "normal"
                    THEN deep_usage' = [deep_usage EXCEPT
                                            ![r.nick] = InWindow(@, now, DAY_SECONDS)]
                    ELSE deep_usage' = deep_usage
       /\ (d_pc' = d_pc /\ now' = now) =>
            LET r == d_reply'.req
            IN  /\ r.deep /\ r.level = "normal"
                /\ deep_usage' = [deep_usage EXCEPT
                                        ![r.nick] = InWindow(@, now, DAY_SECONDS)]
       /\ now' # now => deep_usage' = deep_usage]_vars

\* a deep request of the normal nick ended with null half a day after another
\* ended in success: the ledger holds the one timestamp of the success
C9_OneSuccessRecorded ==
    /\ d_reply.req = [nick |-> "alice", level |-> "normal", deep |-> TRUE]
    /\ d_reply.events[1].status = "null"
    /\ d_reply.usage_rows = 1
    /\ now = DAY_SECONDS \div 2
    /\ deep_usage = [n \in Nicks |-> IF n = "alice" THEN <<0>> ELSE <<>>]
    /\ \A p \in DeepThreads : d_pc[p] = "idle"

\* C10: the deep requests of one nick that ended in success within the 24
\* hours ending now (each is one entry of the nick's ledger) are never more
\* than 3.
C10_DailyQuota ==
    \A n \in Nicks : Len(InWindow(deep_usage[n], now, DAY_SECONDS)) <= MAX_DEEP_PER_DAY

-----------------------------------------------------------------------------
(* Properties of the reminder scheduler (SpecRemind) *)

C12_TenOfflineTicks ==
    \A id \in DOMAIN reminders :
        /\ streak[id] \in 1..9 =>
                /\ reminders[id].status = "pending"
                /\ reminders[id].delivery_attempts = streak[id]
        /\ streak[id] = 10 => reminders[id].status = "failed"

\* C12: a time-type reminder that had delivery_attempts = a before k ticks in
\* a row on which it was selected and reported offline has delivery_attempts
\* a + k; it is failed when a + k >= 10 and pending otherwise (a counts the
\* earlier offline reports and the sends that failed).
C12_AttemptsToFail ==
    \A id \in DOMAIN reminders :
        streak[id] >= 1 =>
            /\ reminders[id].delivery_attempts = streak_base[id] + streak[id]
            /\ reminders[id].status =
                    IF streak_base[id] + streak[id] >= MAX_ATTEMPTS
                    THEN "failed" ELSE "pending"

\* a reminder that was never sent failed on its tenth offline tick
C12_FailedAfterOfflineTicks ==
    \E id \in DOMAIN reminders :
        /\ reminders[id].status = "failed"
        /\ streak_base[id] = 0
        /\ streak[id] = MAX_ATTEMPTS
        /\ reminders[id].delivery_attempts = MAX_ATTEMPTS

-----------------------------------------------------------------------------
(* Properties of the creation of reminders (SpecCreate) *)

\* C13: in every state the pending reminders created by one nick, nicks
\* compared without case, are at most 20.
C13_PendingLimit ==
    \A creator \in {"alice", "bob"} :
        PendingCount(reminders, creator) <= MAX_PENDING

-----------------------------------------------------------------------------
(* Properties of the join checks (SpecJoin) *)

\* C14: a join reminder is returned by at most one join-check call, however
\* the calls interleave (and a returned reminder is delivered).
C14_ReturnedOnce ==
    \A i \in DOMAIN j_returned :
        /\ j_returned[i] <= 1
        /\ j_returned[i] >= 1 => reminders[i].status = "delivered"

-----------------------------------------------------------------------------
(* Properties of the Sources list (SpecCite) *)

\* the cleaned citations of all responses of the request, in the order of
\* their first appearance
RECURSIVE FirstAppearances(_)
FirstAppearances(turns) ==
    IF turns = <<>> THEN <<>>
    ELSE Merge(FirstAppearances(SubSeq(turns, 1, Len(turns) - 1)),
               extract_citations(turns[Len(turns)]))

HasTrackingParam(url) ==
    \E i \in DOMAIN url.query : url.query[i][1] \in TRACKING_PARAMS

\* C15: the Sources list holds each cleaned url once, in the order of first
\* appearance over the responses of the request, and no url of it has a
\* utm_source, utm_medium, utm_campaign, utm_term or utm_content parameter.
C15_SourcesList ==
    cite_pc = "done" /\ cite_turns # <<>> =>
        /\ \A i, j \in DOMAIN cite_sources : cite_sources[i] = cite_sources[j] => i = j
        /\ cite_sources = FirstAppearances(cite_turns)
        /\ \A i \in DOMAIN cite_sources : ~HasTrackingParam(cite_sources[i])

-----------------------------------------------------------------------------
(* Properties of the knowledge base (SpecKB) *)

Stored(collection, url) == Cardinality({c \in collection : c.source_url = url})

\* a learn of a url that has a chunk stored fails, adds nothing and leaves the
\* collection as it is; a forget leaves no chunk of its url
LearnTwiceAndForget ==
    /\ kb_last'.op = "learn" /\ Stored(kb_collection, kb_last'.url) > 0 =>
          ~kb_last'.success /\ kb_last'.count = 0 /\ kb_collection' = kb_collection
    /\ kb_last'.op = "forget" =>
          /\ Stored(kb_collection', kb_last'.url) = 0
          /\ kb_last'.count = Stored(kb_collection, kb_last'.url)
          /\ \A c \in kb_collection :
                c.source_url # kb_last'.url => c \in kb_collection'

-----------------------------------------------------------------------------
(* Properties of the chat history query (SpecHistory) *)

\* C17: a query of a normal user for a channel other than the one of the
\* request, compared without case, is denied and reads no message, whatever
\* the channel of the request, the empty one of a private message included;
\* a query of an admin or owner is never denied.
C17_OwnChannelOnly ==
    h_pc = "done" /\ h_db =>
        /\ h_request.permission_level = "normal"
           /\ Strip(h_args.channel) # ""
           /\ Lower(Strip(h_args.channel)) # Lower(Strip(h_request.channel)) =>
              /\ SubSeq(h_result, 1, Len(DENIED)) = DENIED
              /\ h_read = {}
        /\ h_request.permission_level \in {"admin", "owner"} =>
              SubSeq(h_result, 1, Len(DENIED)) # DENIED

-----------------------------------------------------------------------------
(* Properties of the prompt (SpecPrompt) *)

Prefix(prompt) == SubSeq(prompt.parts, 1, prompt.prefix)

\* C18: two prompts built with the same system prompt, the same deep_mode
\* flag and the same active rules (or both without rules) are equal up to the
\* end of the rules section, or of the section before it when there are no
\* rules, whatever the nick, channel, message, history and time.
C18_StablePrefix ==
    /\ DOMAIN bp_prompts = Calls
    /\ \A i \in Calls : bp_prompts[i] # NoPrompt
    /\ get_active_rules(bp_config.rules, bp_requests[1].nick)
          = get_active_rules(bp_config.rules, bp_requests[2].nick)
    => Prefix(bp_prompts[1]) = Prefix(bp_prompts[2])

-----------------------------------------------------------------------------
(* Properties of the mention endpoints (SpecMention) *)

\* C19: a mention request of an ignored user is answered with an error by
\* both endpoints and the AI client is not invoked for it: no provider call,
\* no usage row.
C19_IgnoredRejected ==
    m_request.permission_level = "ignored" =>
        /\ ~m_invoked
        /\ m_provider_calls = 0
        /\ m_usage_rows = 0
        /\ m_pc = "done" => m_reply = "error"

-----------------------------------------------------------------------------
(* Properties of a request whose provider call raises (SpecLoop) *)

OnlyErrorAfterProcessing ==
    LET frames == SelectSeq(produced, LAMBDA m : m.kind = "chunk")
    IN  /\ pc \in {"gen_done", "finished"}
        /\ frames # <<>>
        /\ frames[Len(frames)] = Chunk("error", GENERIC_ERROR)
        /\ \A i \in 1..(Len(frames) - 1) : frames[i].status = "processing"
        /\ \A i \in DOMAIN written : written[i].status \in {"processing", "error"}
        /\ responder_done => written = frames

-----------------------------------------------------------------------------
(* Properties of a failing function call (SpecLoop) *)

ToolErrorOutputs ==
    {<<"Error: Invalid JSON in tool arguments">>, <<"Error: Unknown tool">>,
     <<"Error executing tool">>}

\* what a function output can be when the call did not fail
RegularOutputs(name) ==
    (ToolResults(name) \ {RAISED})
        \cup {STATUS_ACK, <<"Image Analysis Result:", "analysis">>,
              <<"Error analyzing image:", "timeout">>}
        \cup (IF is_image_tool(name)
              THEN {check_image_rate_limit(permission_level, image_timestamps, now).message}
              ELSE {})

FunctionCallCount == Len(SelectSeq(response.output, IsFunctionCall))

\* the step of the tool loop that handles one function call
CallHandled == pc = "exec" /\ pending' # pending

\* C21: a function call with malformed arguments, with an unregistered name
\* or whose execute raises gets an error string as its function output; the
\* handling of a call never yields an error event and never leaves the turn,
\* every function call of the turn gets one output in order, and the turn
\* ends with the follow-up provider call carrying all of them.
C21_ToolFailureContained ==
    /\ [](pc = "exec" =>
            /\ pending # <<>>
            /\ Len(function_outputs) + Len(pending) = FunctionCallCount)
    /\ [](pc \in {"followup", "next_call"} =>
            /\ Len(function_outputs) = FunctionCallCount
            /\ FunctionCallCount > 0
            /\ \A i \in DOMAIN function_outputs : function_outputs[i].call_id = i)
    /\ [](pc = "next_call" => in_flight = Request(function_outputs, response.id))
    /\ [][CallHandled =>
            LET call == Head(pending)
                out == function_outputs'[Len(function_outputs')].output
            IN  /\ function_outputs' =
                      Append(function_outputs, FunctionOutput(call.call_id, out))
                /\ pending' = Tail(pending)
                /\ pc' \in {"exec", "followup"}
                /\ call.arguments = "malformed" =>
                      out = <<"Error: Invalid JSON in tool arguments">>
                /\ (call.arguments # "malformed" /\ call.name \notin ToolNames) =>
                      out = <<"Error: Unknown tool">>
                /\ out \in ToolErrorOutputs \cup RegularOutputs(call.name)
                /\ \A i \in DOMAIN produced' :
                      i > Len(produced) => produced'[i].status = "processing"]_vars
    /\ [][pc = "followup" /\ pc' # pc => pc' = "next_call"]_vars

\* a turn of two calls whose first call raised in execute: the second call
\* was executed and the follow-up call is on its way with both outputs
C21_FailureThenNextCall ==
    /\ pc = "next_call"
    /\ Len(function_outputs) = 2
    /\ function_outputs[1].output = <<"Error executing tool">>
    /\ function_outputs[2].output \notin ToolErrorOutputs
    /\ Len(in_flight.input) = 2

-----------------------------------------------------------------------------
(* Properties of the blocking path (SpecBlocking) *)

\* C22: the response of the blocking path has the status of the generator's
\* terminal event: error with that event's message for an error event, null
\* with an empty message for a null event, success with its message for a
\* success event.
C22_StatusOfTerminalEvent ==
    b_pc = "done" =>
        /\ b_response.status = b_terminal.status
        /\ b_response.message = b_terminal.message

-----------------------------------------------------------------------------
(* Properties of the permission gates (SpecGate) *)

RanCount(name) ==
    Cardinality({i \in DOMAIN g_handled : g_handled[i].name = name /\ g_handled[i].ran})

MustDeny(h) ==
    \/ h.name = "execute_shell" /\ g_level # "owner"
    \/ /\ h.name = "irc_command"
       /\ \/ g_level = "normal" /\ Lower(h.command) \notin NORMAL_USER_COMMANDS
          \/ g_level = "ignored"

\* C23: execute_shell and irc_command always see the permission_level of
\* the request, whatever the model supplied; execute_shell below owner, and
\* irc_command for a normal user outside the informational commands or for an
\* ignored user, return a string starting with "Permission denied:" and
\* neither the shell nor the IRC client is called.
C23_GatesUseRequestLevel ==
    /\ \A i \in DOMAIN g_handled :
          /\ g_handled[i].seen = g_level
          /\ MustDeny(g_handled[i]) =>
                /\ startswith(g_handled[i].result, DENIED_PREFIX)
                /\ ~g_handled[i].ran
    /\ shell_runs = RanCount("execute_shell")
    /\ irc_posts = RanCount("irc_command")
    /\ g_level # "owner" => shell_runs = 0

\* a normal user's request whose model claims owner for both tools: both
\* calls were denied and nothing ran
C23_ForgedOwnerDenied ==
    /\ g_level = "normal"
    /\ Len(g_handled) = 2
    /\ g_handled[1].name = "execute_shell" /\ g_handled[1].supplied = "owner"
    /\ g_handled[2].name = "irc_command" /\ g_handled[2].supplied = "owner"
    /\ g_handled[2].command = "Kick"
    /\ \A i \in 1..2 : startswith(g_handled[i].result, DENIED_PREFIX)
    /\ shell_runs = 0 /\ irc_posts = 0

-----------------------------------------------------------------------------
(* Properties of manage_user_rules (SpecRules) *)

\* C24: a manage_user_rules call of a request issued by nick N with level
\* normal never reads the entries of a user other than N and leaves the
\* stored data of every other user as it was, whatever requesting_user and
\* target_user the model supplies.
C24_OwnEntriesOnly ==
    [][ur_last'.level = "normal" =>
          /\ ur_last'.target \in {"", Lower(ur_last'.nick)}
          /\ \A u \in RuleUsers \ {Lower(ur_last'.nick)} : ur_file'[u] = ur_file[u]]_vars


\* C29: every id that add assigns to a user is greater than every id assigned
\* to that user before, over any sequence of actions; a disabled entry stays
\* stored and get_active_rules renders exactly the enabled entries.
C29_IdsNeverReused ==
    /\ [][ur_last'.assigned # 0 => ur_last'.assigned > ur_high[ur_last'.target]]_vars
    /\ [](\A u \in RuleUsers :
            Len(get_active_rules(StoredEntries(ur_file), u))
                = Cardinality({i \in DOMAIN ur_file[u].entries : ur_file[u].entries[i].enabled}))

-----------------------------------------------------------------------------
(* Properties of concurrent manage_user_rules calls (SpecRace) *)

Reflected(t) ==
    rr_args[t].action = "add" =>
        /\ rr_file.valid
        /\ \E i \in DOMAIN rr_file.data[EffectiveTarget(rr_args[t])].entries :
              rr_file.data[EffectiveTarget(rr_args[t])].entries[i].content
                  = rr_args[t].content[1]

\* C30: when the mutations of concurrent requests have completed, the rules
\* file reflects every one of them, also when they are on different users,
\* and no load ever reads a partially written file.
C30_NoLostUpdate ==
    /\ ~rr_partial_seen
    /\ (\A t \in RuleThreads : rr_pc[t] = "done") => \A t \in RuleThreads : Reflected(t)

-----------------------------------------------------------------------------
(* Properties of bug_report (SpecBugs) *)

ReporterOf(rows, id) == rows[CHOOSE i \in DOMAIN rows : rows[i].id = id].reporter

\* C25 as stated: list, update, resolve and delete of a request below admin
\* return a denial, show no row and change no row; report is open to every
\* level.
C25_AdminOnlyButReport ==
    [][/\ (bug_last'.level \notin {"owner", "admin"} /\ bug_last'.action # "report") =>
              /\ bug_last'.kind = "denied"
              /\ bug_last'.shown = {}
              /\ bug_rows' = bug_rows
       /\ bug_last'.action = "report" => bug_last'.kind # "denied"]_vars

\* C25, amended: update, resolve and delete of a request below admin return
\* a denial and change no row; list of such a request changes no row and
\* shows only rows reported by the requesting nick; report is never denied
\* and a report stores a row under the requesting nick at every level.
C25_ManageAdminOnly ==
    [][/\ (bug_last'.level \notin {"owner", "admin"}
              /\ bug_last'.action \in {"update", "resolve", "delete"}) =>
              /\ bug_last'.kind = "denied"
              /\ bug_rows' = bug_rows
       /\ (bug_last'.level \notin {"owner", "admin"} /\ bug_last'.action = "list") =>
              /\ bug_rows' = bug_rows
              /\ \A id \in bug_last'.shown : ReporterOf(bug_rows, id) = bug_last'.nick
       /\ bug_last'.action = "report" =>
              /\ bug_last'.kind # "denied"
              /\ bug_last'.kind = "reported" =>
                    bug_rows' = Append(bug_rows, Bug(bug_next_id, bug_last'.nick,
                                                     "open", "normal"))
       /\ bug_last'.action # "report" => Len(bug_rows') <= Len(bug_rows)]_vars

\* bob, a normal user, has listed his own report while alice's report is in
\* the table too
C25_OwnReportListed ==
    /\ bug_last.nick = "bob" /\ bug_last.level = "normal"
    /\ bug_last.action = "list" /\ bug_last.kind = "listed"
    /\ Len(bug_rows) = 2
    /\ bug_rows[1].reporter = "alice"
    /\ bug_last.shown = {2}

-----------------------------------------------------------------------------
(* Properties of the delivery counter (SpecRemind) *)

\* C27: in every state every reminder has delivery_attempts <= 10, and a
\* reminder whose counter has reached 10 is no longer pending, whether the
\* counter grew because the target was offline or because the send failed.
C27_AttemptsCapped ==
    \A i \in DOMAIN reminders :
        /\ reminders[i].delivery_attempts <= MAX_ATTEMPTS
        /\ reminders[i].delivery_attempts >= MAX_ATTEMPTS => reminders[i].status # "pending"

-----------------------------------------------------------------------------
(* Properties of recurrence and expiry (SpecExpiry) *)

PeriodSeconds(recurrence) ==
    CASE recurrence = "hourly" -> 3600
      [] recurrence = "daily" -> 24 * 3600
      [] recurrence = "weekly" -> 7 * 24 * 3600

\* C26: a successful delivery of a reminder recurring hourly, daily or weekly
\* changes its row, and nothing but its row, to deliver_at = the stored
\* deliver_at + one period, whatever the time is, and delivery_attempts = 0;
\* the row keeps its id and stays pending, and if it was more than one period
\* overdue it is due again at once, for the next tick.
C26_OnePeriodFromStored ==
    [][\A i \in DOMAIN reminders :
        (ok_sends'[i] > ok_sends[i]
            /\ reminders[i].recurrence \in {"hourly", "daily", "weekly"}) =>
          /\ reminders' = [reminders EXCEPT
                ![i].deliver_at = @ + PeriodSeconds(reminders[i].recurrence),
                ![i].delivery_attempts = 0]
          /\ reminders'[i].status = "pending"
          /\ reminders[i].deliver_at + PeriodSeconds(reminders[i].recurrence) <= now
                => i \in DueIds(reminders', now')]_vars

\* C26 happens: after one stop of 31 days a daily reminder due since day 1 was
\* delivered on the first tick and again on the second, 15 seconds later
C26_OverdueDeliveredTwice ==
    \E i \in DOMAIN reminders :
        /\ reminders[i].recurrence = "daily"
        /\ restarts = 1 /\ ticks = 2 /\ ok_sends[i] = 2
        /\ reminders[i].deliver_at = 3 * 24 * 3600
        /\ reminders[i].deliver_at < now
        /\ reminders[i].status = "pending"

\* C28: check_join_reminders returns no join reminder more than 30 days after
\* its creation (now > expires_at), and no recurring reminder is delivered and
\* rescheduled more than 365 days after its creation.
C28_ExpiredNeverServed ==
    [][\A i \in DOMAIN reminders :
        /\ j_returned'[i] > j_returned[i] => now <= reminders[i].expires_at
        /\ (ok_sends'[i] > ok_sends[i] /\ reminders[i].recurrence # "")
              => now <= reminders[i].created_at + 365 * 24 * 3600]_vars

-----------------------------------------------------------------------------
(* Properties of the token accounting (SpecUsage) *)

\* what the provider reported in one response, absent or None counting as 0
ReportedInput(resp_usage) ==
    IF resp_usage = <<>> \/ resp_usage[1].input_tokens = <<>> THEN 0
    ELSE resp_usage[1].input_tokens[1]

ReportedCached(resp_usage) ==
    IF resp_usage = <<>> \/ resp_usage[1].input_tokens_details = <<>> THEN 0
    ELSE IF resp_usage[1].input_tokens_details[1].cached_tokens = <<>> THEN 0
    ELSE resp_usage[1].input_tokens_details[1].cached_tokens[1]

ReportedOutput(resp_usage) ==
    IF resp_usage = <<>> \/ resp_usage[1].output_tokens = <<>> THEN 0
    ELSE resp_usage[1].output_tokens[1]

RECURSIVE ReportedSum(_)
ReportedSum(reports) ==
    IF reports = <<>> THEN [input |-> 0, cached |-> 0, output |-> 0]
    ELSE LET rest == ReportedSum(Tail(reports))
         IN  [input |-> ReportedInput(Head(reports)) + rest.input,
              cached |-> ReportedCached(Head(reports)) + rest.cached,
              output |-> ReportedOutput(Head(reports)) + rest.output]

LoopFinished(e) == e.status \in {"success", "null"} \/ e.message = EMPTY_ERROR

-----------------------------------------------------------------------------
(* Properties of the scheduler singleton (SpecSingleton) *)

\* C32: however many ReminderTool instances are constructed and however the
\* constructions interleave, at most one scheduler thread is started, and
\* at most one thread is ever between the test of the flag and its setting.
C32_OneSchedulerThread ==
    /\ sg_threads <= 1
    /\ Cardinality({t \in Constructors : sg_pc[t] \in {"check", "set"}}) <= 1
    /\ Cardinality({t \in Constructors : sg_pc[t] = "start"}) + sg_threads <= 1
    /\ sg_threads = 1 => sg_started

\* C32 happens: four constructions were begun, three threads are inside
\* _start_scheduler at once, and one scheduler thread runs
C32_ThreeConstructingOneThread ==
    /\ sg_constructed = 4
    /\ sg_threads = 1
    /\ \A t \in Constructors : sg_pc[t] # "idle"

-----------------------------------------------------------------------------
(* Properties of the abandoned stream (SpecAbandon) *)

-----------------------------------------------------------------------------
(* Properties of the follow-up calls (SpecLoop) *)

\* C34: the first provider call of a request carries the prompt and no
\* previous_response_id; the n-th follow-up call carries the id of the n-th
\* response, which is the one received last, and as input one
\* function_call_output per function_call item of that response, with its
\* call_id, in the order of the items, and not the prompt.
C34_FollowUpChained ==
    /\ pc = "first_call" =>
            in_flight.input = PROMPT /\ in_flight.previous_response_id = 0
    /\ pc = "next_call" =>
            LET calls == SelectSeq(response.output, LAMBDA it : it.type = "function_call")
            IN  /\ in_flight.previous_response_id = response.id
                /\ response.id = followups
                /\ Len(in_flight.input) = Len(calls)
                /\ \A k \in DOMAIN calls :
                      DOMAIN in_flight.input[k] = {"call_id", "output"}
                /\ \A k \in DOMAIN calls : in_flight.input[k].call_id = calls[k].call_id
    /\ pc \notin {"first_call", "next_call"} => in_flight.input = <<>>

\* C34 happens: the second follow-up call of a request is on its way, chained
\* to the second response and carrying the outputs of its two function calls
C34_SecondFollowUp ==
    /\ pc = "next_call"
    /\ followups = 2
    /\ in_flight.previous_response_id = 2
    /\ Len(in_flight.input) = 2
    /\ in_flight.input[1].call_id # in_flight.input[2].call_id

-----------------------------------------------------------------------------
(* Properties of the call parameters (SpecParams) *)

\* C35: every provider call of a deep_mode request, the first and every
\* follow-up call, is made with reasoning effort high, max_output_tokens
\* 16000 and timeout 480; every call of a normal request with the configured
\* effort, token limit and timeout.
C35_DeepOnEveryCall ==
    \A k \in DOMAIN pr_calls :
        pr_calls[k] = IF pr_deep
                      THEN [reasoning_effort |-> "high", max_output_tokens |-> 16000,
                            timeout |-> 480]
                      ELSE pr_config

-----------------------------------------------------------------------------
(* Properties of cancelling (SpecCancel) *)

\* C37: delivered, cancelled and failed are terminal: once a reminder has one
\* of these statuses its status never changes again and no message is sent for
\* it, by the scheduler or by a join check, however a cancel or a join check
\* interleaves with a tick that has selected the reminder.
C37_TerminalStatuses ==
    [][\A i \in DOMAIN reminders :
          reminders[i].status \in TERMINAL =>
              /\ reminders'[i].status = reminders[i].status
              /\ tick_sends'[i] <= tick_sends[i]
              /\ j_returned'[i] = j_returned[i]]_vars

-----------------------------------------------------------------------------
(* The content of the image window (SpecImage) *)

\* C39: the shared window holds one timestamp for each successful image
\* generation of a normal request in the last hour and nothing else: a
\* generation run for an owner or admin, a denied call and a call whose result
\* starts with "Error" add none.
C39_WindowOfNormalSuccesses ==
    InWindow(image_timestamps, now, WINDOW_SECONDS)
        = InWindow(normal_successes, now, WINDOW_SECONDS)

-----------------------------------------------------------------------------
(* Properties of the deep_mode field (SpecField) *)

\* C40: on both endpoints a request posted with deep_mode true is run by the
\* orchestrator with deep_mode true, so with the quota gate, the cap of 30
\* iterations and the recording of the usage; a request posted without the
\* field, or with false, is run with deep_mode false.
C40_DeepModeHonoured ==
    df_pc = "done" /\ df_endpoint # "" =>
        LET wanted == "deep_mode" \in DOMAIN df_body /\ df_body["deep_mode"]
        IN  /\ df_run # None
            /\ df_run[1] = Orchestrate(wanted)

-----------------------------------------------------------------------------
(* Properties of the migration (SpecMigrate) *)

Occurrences(index, id) == Cardinality({k \in DOMAIN index : index[k] = id})

AllIndexedOnce ==
    \A i \in DOMAIN mg_messages :
        mg_messages[i] # "" => Occurrences(mg_index, i) = 1

\* C38: under repeated runs every message with non-empty content is in the end
\* in the index exactly once, also when a batch of a run fails and a later
\* batch of the same run succeeds.
C38_EventuallyIndexedOnce == <>[](Len(mg_messages) = MaxMessages /\ AllIndexedOnce)

=============================================================================
